---- MODULE Spec2Model ----
(***************************************************************************)
(* Model of the 2.5D re-rendering pipeline: depth-to-mesh construction     *)
(* (MeshGenerator, DepthMesh), the projection matrix built from pinhole    *)
(* intrinsics, and the GLRenderer / Framebuffer render-and-readback path.  *)
(*                                                                         *)
(* float values are modelled as exact extended rationals <<n, d>>:         *)
(*   d > 0  : the finite value n/d in lowest terms                         *)
(*   <<0,0>>: NaN,  <<1,0>>: +infinity,  <<-1,0>>: -infinity               *)
(* so rounding of binary32 arithmetic is not represented.                  *)
(***************************************************************************)
EXTENDS Integers, Sequences, FiniteSets, TLC

(***************************************************************************)
(* Bounds of the model                                                     *)
(***************************************************************************)
MaxW == 2
MaxH == 2
MaxFlat == 4
\* calls a caller makes on a DepthMesh, a GLRenderer and a RenderOutput
MaxCalls == 6
\* triangles a caller stacks over one pixel
MaxLayers == 3
\* focal scales in the list of the driver
MaxScales == 2

(***************************************************************************)
(* Extended rational arithmetic standing for float                         *)
(***************************************************************************)
Abs(i) == IF i < 0 THEN -i ELSE i

RECURSIVE Gcd(_, _)
Gcd(a, b) == IF b = 0 THEN a ELSE Gcd(b, a % b)

\* the rational n/d (d # 0) in lowest terms with a positive denominator
Rat(n, d) ==
    LET g == Gcd(Abs(n), Abs(d))
        s == IF d < 0 THEN -1 ELSE 1
    IN  IF g = 0 THEN <<0, 0>> ELSE <<(s * n) \div g, (s * d) \div g>>

NaN    == <<0, 0>>
PosInf == <<1, 0>>
NegInf == <<-1, 0>>
Zero   == <<0, 1>>
Half   == <<1, 2>>
One    == <<1, 1>>
Two    == <<2, 1>>
FromInt(i) == <<i, 1>>

isfinite(x) == x[2] # 0

RAdd(x, y) == Rat(x[1] * y[2] + y[1] * x[2], x[2] * y[2])
RSub(x, y) == Rat(x[1] * y[2] - y[1] * x[2], x[2] * y[2])
RMul(x, y) == Rat(x[1] * y[1], x[2] * y[2])
RDiv(x, y) == Rat(x[1] * y[2], x[2] * y[1])
RNeg(x)    == <<-x[1], x[2]>>
RLt(x, y)  == x[1] * y[2] < y[1] * x[2]
RLe(x, y)  == x[1] * y[2] <= y[1] * x[2]
RGt(x, y)  == RLt(y, x)
RGe(x, y)  == RLe(y, x)
RAbs(x)    == <<Abs(x[1]), x[2]>>
RMin(x, y) == IF RLt(y, x) THEN y ELSE x
RMax(x, y) == IF RLt(x, y) THEN y ELSE x

(***************************************************************************)
(* State                                                                   *)
(***************************************************************************)
VARIABLES
    \* MeshGenerator: its thresholds and the arguments and results of the
    \* latest generate call
    thresholds_, genDepth, genMask, genK, genMesh, genGrid, genDone,
    \* a DepthThresholds object, the arguments of the latest isDiscontinuity
    \* call on it and what the call returned
    tau, discZ1, discZ2, discRet, discDone,
    \* the projection pipeline for one point: the source pixel and intrinsics,
    \* the camera-space vertex, the target intrinsics and planes, the matrix
    \* of createProjectionMatrix and the clip position of the vertex shader
    projPixel, projSourceK, projVertex, projTargetK, projPlanes, projMatrix,
    projClip, projStage,
    \* DepthMesh
    mesh_, texture_, intrinsics_, minDepth_, maxDepth_,
    \* GLRenderer, with the program of its Shader and the state of its
    \* GLContext
    initialized_, eglContext_, programId_, vao_, vbo_, ebo_, rgbTexture_,
    numIndices_,
    \* the Framebuffer of the renderer
    fboId_, colorTextures_, depthRbo_, width_, height_,
    \* the GL server: the object names in use, the data stores of the vertex
    \* and element buffers, the image of the RGB texture and the images of
    \* the framebuffer attachments
    glNames, vboData, eboData, texImage, attachments,
    \* the GL commands the latest call on the renderer issued, each with
    \* whether the renderer's context was initialized at the time
    glIssued,
    \* the caller: its RenderOutput, a record of its latest call and the
    \* number of calls it has made
    output, call, numCalls,
    \* a render of a caller's mesh of stacked triangles: the planes, the camera
    \* Z of each triangle in draw order, the projection matrix and the output
    layerPlanes, layerDepths, layerMatrix, layerOutput, layerDone,
    \* main: its configuration, the image and depth map it loads, its position,
    \* the index of the focal scale of the loop, the calls it has made on the
    \* DepthMesh and the GLRenderer, the indices of the scales whose output it
    \* has saved, and its exit code (-1 while it runs)
    config, loaded, pc, scaleIdx, trace, saved, exitCode,
    \* a GLContext on its own: its fields, the EGL objects it has created and
    \* not destroyed, the EGL calls of its latest operation, a record of that
    \* operation and the number of operations so far
    glContext, eglLive, eglLog, ctxCall, ctxCalls

meshGenVars == <<thresholds_, genDepth, genMask, genK, genMesh, genGrid, genDone>>
discVars == <<tau, discZ1, discZ2, discRet, discDone>>
projVars == <<projPixel, projSourceK, projVertex, projTargetK, projPlanes,
              projMatrix, projClip, projStage>>
depthMeshVars == <<mesh_, texture_, intrinsics_, minDepth_, maxDepth_>>
rendererVars == <<initialized_, eglContext_, programId_, vao_, vbo_, ebo_,
                  rgbTexture_, numIndices_>>
framebufferVars == <<fboId_, colorTextures_, depthRbo_, width_, height_>>
glVars == <<glNames, vboData, eboData, texImage, attachments>>
renderVars == <<depthMeshVars, rendererVars, framebufferVars, glVars, glIssued, output,
                call, numCalls>>

layerVars == <<layerPlanes, layerDepths, layerMatrix, layerOutput, layerDone>>
driverVars == <<config, loaded, pc, scaleIdx, trace, saved, exitCode>>
contextVars == <<glContext, eglLive, eglLog, ctxCall, ctxCalls>>

\* what the operations of one component leave alone
notMeshGenVars == <<discVars, projVars, renderVars, layerVars, driverVars, contextVars>>
notDiscVars == <<meshGenVars, projVars, renderVars, layerVars, driverVars, contextVars>>
notProjVars == <<meshGenVars, discVars, renderVars, layerVars, driverVars, contextVars>>
notRenderVars == <<meshGenVars, discVars, projVars, layerVars, driverVars, contextVars>>
notLayerVars == <<meshGenVars, discVars, projVars, renderVars, driverVars, contextVars>>
notDriverVars == <<meshGenVars, discVars, projVars, layerVars, contextVars>>
notContextVars == <<meshGenVars, discVars, projVars, renderVars, layerVars, driverVars>>

(***************************************************************************)
(* types.hpp                                                               *)
(***************************************************************************)
Intrinsics(fx, fy, cx, cy, w, h) ==
    [fx |-> fx, fy |-> fy, cx |-> cx, cy |-> cy, width |-> w, height |-> h]

\* Intrinsics(): fx = fy = 525, cx = 320, cy = 240, 640 x 480
\* Intrinsics::scaled: the focal lengths times scale, the principal point and
\* the size kept
scaled(K, scale) ==
    Intrinsics(RMul(K.fx, scale), RMul(K.fy, scale), K.cx, K.cy, K.width, K.height)

\* Intrinsics::withResolution: focal lengths and principal point times w/width
\* and h/height
withResolution(K, w, h) ==
    LET scale_x == RDiv(FromInt(w), FromInt(K.width))
        scale_y == RDiv(FromInt(h), FromInt(K.height))
    IN  Intrinsics(RMul(K.fx, scale_x), RMul(K.fy, scale_y),
                   RMul(K.cx, scale_x), RMul(K.cy, scale_y), w, h)

DefaultIntrinsics ==
    Intrinsics(FromInt(525), FromInt(525), FromInt(320), FromInt(240), 640, 480)

Vertex(x, y, z, u, v) == [x |-> x, y |-> y, z |-> z, u |-> u, v |-> v]

Triangle(a, b, c) == [v0 |-> a, v1 |-> b, v2 |-> c]

EmptyMesh == [vertices |-> <<>>, triangles |-> <<>>]

\* Mesh::empty
MeshEmpty(m) == m.vertices = <<>> \/ m.triangles = <<>>

DepthThresholds(rel, abs) == [tau_rel |-> rel, tau_abs |-> abs]

\* DepthThresholds(): tau_rel = 0.05, tau_abs = 0.1
DefaultThresholds == DepthThresholds(Rat(1, 20), Rat(1, 10))

\* an isDiscontinuity that takes a depth of zero for valid
isDiscontinuity_zeroValid(thr, z1, z2) ==
    IF ~isfinite(z1) \/ ~isfinite(z2) THEN TRUE
    ELSE IF RLt(z1, Zero) \/ RLt(z2, Zero) THEN TRUE
    ELSE LET diff     == RAbs(RSub(z1, z2))
             min_z    == RMin(z1, z2)
             max_z    == RMax(z1, z2)
             rel_diff == RDiv(diff, min_z)
         IN  IF RGt(rel_diff, thr.tau_rel) THEN TRUE
             ELSE LET adaptive_abs ==
                          RMul(thr.tau_abs, RMax(One, RDiv(max_z, Two)))
                  IN  IF RGt(diff, adaptive_abs) THEN TRUE ELSE FALSE

\* DepthThresholds::isDiscontinuity
isDiscontinuity(thr, z1, z2) ==
    IF ~isfinite(z1) \/ ~isfinite(z2) THEN TRUE
    ELSE IF RLe(z1, Zero) \/ RLe(z2, Zero) THEN TRUE
    ELSE LET diff     == RAbs(RSub(z1, z2))
             min_z    == RMin(z1, z2)
             max_z    == RMax(z1, z2)
             rel_diff == RDiv(diff, min_z)
         IN  IF RGt(rel_diff, thr.tau_rel) THEN TRUE
             ELSE LET adaptive_abs ==
                          RMul(thr.tau_abs, RMax(One, RDiv(max_z, Two)))
                  IN  IF RGt(diff, adaptive_abs) THEN TRUE ELSE FALSE

\* a validity test that forgets the sign
isValidDepth_finiteOnly(z) == isfinite(z)

isValidDepth(z) == isfinite(z) /\ RGt(z, Zero)

(***************************************************************************)
(* mesh_generator.cpp                                                      *)
(***************************************************************************)
\* a cv::Mat of one channel: rows, cols and the row-major elements
\* (a CV_32F matrix holds floats, a CV_16U or CV_8U matrix holds naturals)
Mat(type, rows, cols, data) ==
    [type |-> type, rows |-> rows, cols |-> cols, data |-> data]
EmptyMat == Mat("CV_32F", 0, 0, <<>>)
MatEmpty(m) == m.rows = 0 \/ m.cols = 0
MatAt(m, v, u) == m.data[v * m.cols + u + 1]

\* a back-projection from the pixel corner instead of the pixel centre
backproject_corner(u, v, z, K) ==
    LET X == RDiv(RMul(RSub(u, K.cx), z), K.fx)
        Y == RDiv(RMul(RSub(v, K.cy), z), K.fy)
        tex_u == RDiv(u, FromInt(K.width))
        tex_v == RDiv(v, FromInt(K.height))
    IN  Vertex(X, Y, z, tex_u, tex_v)

backproject(u, v, z, K) ==
    LET u_center == RAdd(u, Half)
        v_center == RAdd(v, Half)
        X == RDiv(RMul(RSub(u_center, K.cx), z), K.fx)
        Y == RDiv(RMul(RSub(v_center, K.cy), z), K.fy)
        tex_u == RDiv(u_center, FromInt(K.width))
        tex_v == RDiv(v_center, FromInt(K.height))
    IN  Vertex(X, Y, z, tex_u, tex_v)

shouldBreakEdge(thr, z1, z2) == isDiscontinuity(thr, z1, z2)

\* a triangle test that checks two edges only
isValidTriangle_twoEdges(thr, z0, z1, z2) ==
    IF ~isValidDepth(z0) \/ ~isValidDepth(z1) \/ ~isValidDepth(z2) THEN FALSE
    ELSE IF shouldBreakEdge(thr, z0, z1) THEN FALSE
    ELSE IF shouldBreakEdge(thr, z1, z2) THEN FALSE
    ELSE TRUE

isValidTriangle(thr, z0, z1, z2) ==
    IF ~isValidDepth(z0) \/ ~isValidDepth(z1) \/ ~isValidDepth(z2) THEN FALSE
    ELSE IF shouldBreakEdge(thr, z0, z1) THEN FALSE
    ELSE IF shouldBreakEdge(thr, z1, z2) THEN FALSE
    ELSE IF shouldBreakEdge(thr, z2, z0) THEN FALSE
    ELSE TRUE

\* the vertex loop of generate, from pixel i = v * W + u on: vertexGrid is
\* indexed 1 .. W*H (entry i + 1 for pixel i) and holds 0-based vertex indices
RECURSIVE genVertices(_, _, _, _, _, _)
genVertices(i, depthF, validMask, K, vertexGrid, vertices) ==
    IF i >= depthF.cols * depthF.rows THEN [grid |-> vertexGrid, vertices |-> vertices]
    ELSE LET v == i \div depthF.cols
             u == i % depthF.cols
             z == MatAt(depthF, v, u)
             valid == isValidDepth(z)
                      /\ (MatEmpty(validMask) \/ MatAt(validMask, v, u) > 0)
         IN  IF valid
             THEN genVertices(i + 1, depthF, validMask, K,
                              [vertexGrid EXCEPT ![i + 1] = Len(vertices)],
                              Append(vertices,
                                     backproject(FromInt(u), FromInt(v), z, K)))
             ELSE genVertices(i + 1, depthF, validMask, K, vertexGrid, vertices)

\* a quad that emits its second triangle only when the first was rejected
quadTriangles_elseIf(thr, depthF, vertexGrid, v, u) ==
    LET W == depthF.cols
        idx00 == vertexGrid[v * W + u + 1]
        idx10 == vertexGrid[v * W + (u + 1) + 1]
        idx01 == vertexGrid[(v + 1) * W + u + 1]
        idx11 == vertexGrid[(v + 1) * W + (u + 1) + 1]
        z00 == MatAt(depthF, v, u)
        z10 == MatAt(depthF, v, u + 1)
        z01 == MatAt(depthF, v + 1, u)
        z11 == MatAt(depthF, v + 1, u + 1)
    IN  IF idx00 >= 0 /\ idx10 >= 0 /\ idx11 >= 0
           /\ isValidTriangle(thr, z00, z10, z11)
        THEN <<Triangle(idx00, idx10, idx11)>>
        ELSE IF idx00 >= 0 /\ idx11 >= 0 /\ idx01 >= 0
                /\ isValidTriangle(thr, z00, z11, z01)
             THEN <<Triangle(idx00, idx11, idx01)>> ELSE <<>>

\* the two candidate triangles of the quad whose top-left pixel is (u, v)
quadTriangles(thr, depthF, vertexGrid, v, u) ==
    LET W == depthF.cols
        idx00 == vertexGrid[v * W + u + 1]
        idx10 == vertexGrid[v * W + (u + 1) + 1]
        idx01 == vertexGrid[(v + 1) * W + u + 1]
        idx11 == vertexGrid[(v + 1) * W + (u + 1) + 1]
        z00 == MatAt(depthF, v, u)
        z10 == MatAt(depthF, v, u + 1)
        z01 == MatAt(depthF, v + 1, u)
        z11 == MatAt(depthF, v + 1, u + 1)
        t1 == IF idx00 >= 0 /\ idx10 >= 0 /\ idx11 >= 0
                 /\ isValidTriangle(thr, z00, z10, z11)
              THEN <<Triangle(idx00, idx10, idx11)>> ELSE <<>>
        t2 == IF idx00 >= 0 /\ idx11 >= 0 /\ idx01 >= 0
                 /\ isValidTriangle(thr, z00, z11, z01)
              THEN <<Triangle(idx00, idx11, idx01)>> ELSE <<>>
    IN  t1 \o t2

\* the quad loop of generate, from quad q = v * (W - 1) + u on
RECURSIVE genTriangles(_, _, _, _, _)
genTriangles(q, thr, depthF, vertexGrid, triangles) ==
    IF depthF.cols < 2 \/ q >= (depthF.rows - 1) * (depthF.cols - 1) THEN triangles
    ELSE genTriangles(q + 1, thr, depthF, vertexGrid,
                      triangles \o quadTriangles(thr, depthF, vertexGrid,
                                                 q \div (depthF.cols - 1),
                                                 q % (depthF.cols - 1)))

\* cv::Mat::convertTo(depthF, CV_32F) of an integer matrix: every element
\* becomes the float of the same value
convertToF(m) ==
    Mat("CV_32F", m.rows, m.cols, [i \in 1..Len(m.data) |-> FromInt(m.data[i])])

\* the float32 depth map generate works on
depthFOf(depth) == IF depth.type # "CV_32F" THEN convertToF(depth) ELSE depth

\* MeshGenerator::generate; the result carries the vertex grid beside the mesh
generate(thr, depth, K, validMask) ==
    IF MatEmpty(depth) THEN [mesh |-> EmptyMesh, grid |-> <<>>]
    ELSE LET depthF == depthFOf(depth)
             gv == genVertices(0, depthF, validMask, K,
                               [i \in 1..(depth.cols * depth.rows) |-> -1], <<>>)
             tris == genTriangles(0, thr, depthF, gv.grid, <<>>)
         IN  [mesh |-> [vertices |-> gv.vertices, triangles |-> tris],
              grid |-> gv.grid]

(***************************************************************************)
(* Inputs of the mesh generator                                            *)
(***************************************************************************)
\* depth values a float map draws its pixels from: one triple of close
\* depths, and pairs mixing valid, invalid and far-apart depths
DepthPalettes ==
    { {Rat(2, 1), Rat(52, 25), Rat(54, 25)},
      {NaN, Rat(2, 1)},
      {Zero, Rat(2, 1)},
      {Rat(-1, 1), Rat(10, 1)},
      {PosInf, Rat(10, 1)},
      {NegInf, Rat(2, 1)},
      {Rat(2, 1), Rat(10, 1)},
      {Rat(10, 1), Rat(51, 5)} }

\* raw values of a 16-bit depth map
Depth16Palette == {0, 2}

DepthMapsOf(w, h) ==
    { Mat("CV_32F", h, w, d) : d \in UNION { [1..(w * h) -> p] : p \in DepthPalettes } }
    \cup { Mat("CV_16U", h, w, d) : d \in [1..(w * h) -> Depth16Palette] }

\* validity masks for a w x h map: none, or one with the first pixel cleared
\* and the other bytes alternating 255 and 1
MasksOf(w, h) ==
    { EmptyMat,
      Mat("CV_8U", h, w,
          [i \in 1..(w * h) |-> IF i = 1 THEN 0 ELSE IF i % 2 = 0 THEN 255 ELSE 1]) }

ThresholdSet == { DefaultThresholds, DepthThresholds(Rat(1, 10), Rat(1, 2)) }

GenIntrinsics(w, h) ==
    { Intrinsics(FromInt(2), FromInt(3), Rat(w, 2), Rat(h, 2), w, h) }

(***************************************************************************)
(* MeshGenerator as a state machine: a generator is constructed, may get   *)
(* thresholds, and generate is called on the arguments drawn in Init       *)
(***************************************************************************)
MeshGenInit ==
    /\ thresholds_ = DefaultThresholds
    /\ \E w \in 0..MaxW, h \in 0..MaxH :
          IF w = 0 \/ h = 0
          THEN /\ genDepth = EmptyMat
               /\ genMask = EmptyMat
               /\ genK \in GenIntrinsics(1, 1)
          ELSE /\ genDepth \in DepthMapsOf(w, h)
               /\ genMask \in MasksOf(w, h)
               /\ genK \in GenIntrinsics(w, h)
    /\ genMesh = EmptyMesh
    /\ genGrid = <<>>
    /\ genDone = FALSE

\* MeshGenerator::setThresholds
SetThresholds ==
    /\ ~genDone
    /\ \E thr \in ThresholdSet : thresholds_' = thr
    /\ UNCHANGED <<genDepth, genMask, genK, genMesh, genGrid, genDone>>
    /\ UNCHANGED notMeshGenVars

\* MeshGenerator::generate(depth, intrinsics, validMask); an empty validMask
\* is the two-argument overload
Generate ==
    /\ ~genDone
    /\ LET r == generate(thresholds_, genDepth, genK, genMask)
       IN  /\ genMesh' = r.mesh
           /\ genGrid' = r.grid
    /\ genDone' = TRUE
    /\ UNCHANGED <<thresholds_, genDepth, genMask, genK>>
    /\ UNCHANGED notMeshGenVars

MeshGenNext == SetThresholds \/ Generate

\* the generator before any use, for specifications about other components
MeshGenIdle ==
    /\ thresholds_ = DefaultThresholds
    /\ genDepth = EmptyMat
    /\ genMask = EmptyMat
    /\ genK = DefaultIntrinsics
    /\ genMesh = EmptyMesh
    /\ genGrid = <<>>
    /\ genDone = FALSE

\* constant-depth maps of every size up to MaxFlat x MaxFlat, no mask
FlatDepths == { Rat(1, 100), Rat(2, 1), Rat(51, 5), Rat(1000, 1) }

MeshFlatInit ==
    /\ thresholds_ = DefaultThresholds
    /\ \E w \in 1..MaxFlat, h \in 1..MaxFlat, z \in FlatDepths :
          /\ genDepth = Mat("CV_32F", h, w, [i \in 1..(w * h) |-> z])
          /\ genK \in GenIntrinsics(w, h)
    /\ genMask = EmptyMat
    /\ genMesh = EmptyMesh
    /\ genGrid = <<>>
    /\ genDone = FALSE

(***************************************************************************)
(* DepthThresholds::isDiscontinuity as a state machine                     *)
(***************************************************************************)
DiscDepths ==
    { NaN, PosInf, NegInf, Zero, Rat(-1, 1), Rat(2, 1), Rat(41, 20), Rat(5, 2),
      Rat(10, 1), Rat(51, 5) }

\* thresholds of the object: those of the generator, zero ones and negative
\* ones (the constructor takes any two floats)
DiscThresholds ==
    ThresholdSet \cup { DepthThresholds(Zero, Zero), DepthThresholds(Zero, Rat(1, 10)),
                        DepthThresholds(Rat(-1, 1), Rat(-1, 2)) }

DiscInit ==
    /\ tau \in DiscThresholds
    /\ discZ1 \in DiscDepths
    /\ discZ2 \in DiscDepths
    /\ discRet = FALSE
    /\ discDone = FALSE

IsDiscontinuityCall ==
    /\ ~discDone
    /\ discRet' = isDiscontinuity(tau, discZ1, discZ2)
    /\ discDone' = TRUE
    /\ UNCHANGED <<tau, discZ1, discZ2>>
    /\ UNCHANGED notDiscVars

DiscIdle ==
    /\ tau = DefaultThresholds
    /\ discZ1 = Zero
    /\ discZ2 = Zero
    /\ discRet = FALSE
    /\ discDone = FALSE

(***************************************************************************)
(* gl_renderer.cpp: projection matrix and vertex stage                     *)
(***************************************************************************)
\* a projection matrix with the principal point offsets in the translation
\* column (matrix[12], matrix[13]) instead of the Z column
createProjectionMatrix_offsetInTranslation(K, near, far) ==
    LET W == FromInt(K.width)
        H == FromInt(K.height)
        n == near
        f == far
    IN  [i \in 1..16 |->
            CASE i = 1  -> RDiv(RMul(Two, K.fx), W)
              [] i = 6  -> RDiv(RMul(FromInt(-2), K.fy), H)
              [] i = 13 -> RSub(RDiv(RMul(Two, K.cx), W), One)
              [] i = 14 -> RSub(One, RDiv(RMul(Two, K.cy), H))
              [] i = 11 -> RDiv(RAdd(f, n), RSub(f, n))
              [] i = 12 -> One
              [] i = 15 -> RDiv(RMul(RMul(FromInt(-2), f), n), RSub(f, n))
              [] OTHER  -> Zero]

\* a projection matrix whose Y scaling keeps the sign of camera Y
createProjectionMatrix_noFlip(K, near, far) ==
    LET W == FromInt(K.width)
        H == FromInt(K.height)
        n == near
        f == far
    IN  [i \in 1..16 |->
            CASE i = 1  -> RDiv(RMul(Two, K.fx), W)
              [] i = 6  -> RDiv(RMul(Two, K.fy), H)
              [] i = 9  -> RSub(RDiv(RMul(Two, K.cx), W), One)
              [] i = 10 -> RSub(One, RDiv(RMul(Two, K.cy), H))
              [] i = 11 -> RDiv(RAdd(f, n), RSub(f, n))
              [] i = 12 -> One
              [] i = 15 -> RDiv(RMul(RMul(FromInt(-2), f), n), RSub(f, n))
              [] OTHER  -> Zero]

\* GLRenderer::createProjectionMatrix: the 16 floats in column-major order,
\* element matrix[k] of the code at index k + 1
createProjectionMatrix(K, near, far) ==
    LET W == FromInt(K.width)
        H == FromInt(K.height)
        n == near
        f == far
    IN  [i \in 1..16 |->
            CASE i = 1  -> RDiv(RMul(Two, K.fx), W)
              [] i = 6  -> RDiv(RMul(FromInt(-2), K.fy), H)
              [] i = 9  -> RSub(RDiv(RMul(Two, K.cx), W), One)
              [] i = 10 -> RSub(One, RDiv(RMul(Two, K.cy), H))
              [] i = 11 -> RDiv(RAdd(f, n), RSub(f, n))
              [] i = 12 -> One
              [] i = 15 -> RDiv(RMul(RMul(FromInt(-2), f), n), RSub(f, n))
              [] OTHER  -> Zero]

\* row r (0..3) of the column-major matrix m times the column vector vec
MatRow(m, r, vec) ==
    RAdd(RAdd(RMul(m[r + 1], vec[1]), RMul(m[4 + r + 1], vec[2])),
         RAdd(RMul(m[8 + r + 1], vec[3]), RMul(m[12 + r + 1], vec[4])))

\* the vertex shader: gl_Position = uProjection * vec4(aPosition, 1.0),
\* vTexCoord = aTexCoord, vDepth = aPosition.z
vertexShader(uProjection, vtx) ==
    LET pos == <<vtx.x, vtx.y, vtx.z, One>>
    IN  [x |-> MatRow(uProjection, 0, pos),
         y |-> MatRow(uProjection, 1, pos),
         z |-> MatRow(uProjection, 2, pos),
         w |-> MatRow(uProjection, 3, pos),
         vTexCoord |-> <<vtx.u, vtx.v>>,
         vDepth |-> vtx.z]

\* normalized device coordinates of a clip position (division by clip w)
ndcOf(clip) ==
    [x |-> RDiv(clip.x, clip.w), y |-> RDiv(clip.y, clip.w), z |-> RDiv(clip.z, clip.w)]

(***************************************************************************)
(* The projection pipeline for one point                                   *)
(***************************************************************************)
ProjIntrinsics ==
    { Intrinsics(fx, fy, cx, cy, w, h) :
        fx \in {Rat(2, 1), Rat(5, 2)}, fy \in {Rat(3, 1)},
        cx \in {Rat(1, 1), Rat(3, 4)}, cy \in {Rat(1, 2)},
        w \in 1..MaxW, h \in 1..MaxH }

ProjDepths == { Rat(1, 2), Rat(2, 1), Rat(10, 1) }

ProjPoints ==
    { Vertex(x, y, z, Zero, Zero) :
        x \in {Zero, Rat(-3, 2)}, y \in {Zero, Rat(2, 3)}, z \in ProjDepths }

\* near and far: the defaults 0.1 and 100, and another pair
ProjPlanes == { <<Rat(1, 10), Rat(100, 1)>>, <<Rat(1, 1), Rat(20, 1)>> }

\* focal scales of the target camera
ProjScales == { One, Two, Rat(4, 1) }

NoPixel == [used |-> FALSE, u |-> 0, v |-> 0, z |-> Zero]

ZeroMatrix == [i \in 1..16 |-> Zero]
NoClip == [x |-> Zero, y |-> Zero, z |-> Zero, w |-> Zero,
           vTexCoord |-> <<Zero, Zero>>, vDepth |-> Zero]

\* either a pixel of a depth map with its source intrinsics, to be
\* back-projected, or a camera-space point given directly
ProjInit ==
    /\ projSourceK \in ProjIntrinsics
    /\ \/ /\ \E u \in 0..(projSourceK.width - 1), v \in 0..(projSourceK.height - 1),
                z \in ProjDepths :
                projPixel = [used |-> TRUE, u |-> u, v |-> v, z |-> z]
          /\ projVertex = Vertex(Zero, Zero, Zero, Zero, Zero)
          /\ projStage = "pixel"
       \/ /\ projPixel = NoPixel
          /\ projVertex \in ProjPoints
          /\ projStage = "vertex"
    /\ projTargetK = projSourceK
    /\ projPlanes \in ProjPlanes
    /\ projMatrix = ZeroMatrix
    /\ projClip = NoClip

\* MeshGenerator::backproject on the source pixel
Backproject ==
    /\ projStage = "pixel"
    /\ projVertex' = backproject(FromInt(projPixel.u), FromInt(projPixel.v),
                                 projPixel.z, projSourceK)
    /\ projStage' = "vertex"
    /\ UNCHANGED <<projPixel, projSourceK, projTargetK, projPlanes, projMatrix, projClip>>
    /\ UNCHANGED notProjVars

\* GLRenderer::createProjectionMatrix for the source intrinsics or others,
\* zoomed by a focal scale as the callers of render zoom them
CreateProjectionMatrix ==
    /\ projStage = "vertex"
    /\ \E K \in ProjIntrinsics, scale \in ProjScales :
          /\ K = projSourceK \/ (K.width = MaxW /\ K.height = MaxH)
          /\ projTargetK' = scaled(K, scale)
          /\ projMatrix' = createProjectionMatrix(projTargetK', projPlanes[1], projPlanes[2])
    /\ projStage' = "matrix"
    /\ UNCHANGED <<projPixel, projSourceK, projVertex, projPlanes, projClip>>
    /\ UNCHANGED notProjVars

\* the vertex shader on the vertex
VertexStage ==
    /\ projStage = "matrix"
    /\ projClip' = vertexShader(projMatrix, projVertex)
    /\ projStage' = "clip"
    /\ UNCHANGED <<projPixel, projSourceK, projVertex, projTargetK, projPlanes, projMatrix>>
    /\ UNCHANGED notProjVars

ProjNext == Backproject \/ CreateProjectionMatrix \/ VertexStage

ProjIdle ==
    /\ projPixel = NoPixel
    /\ projSourceK = DefaultIntrinsics
    /\ projVertex = Vertex(Zero, Zero, Zero, Zero, Zero)
    /\ projTargetK = DefaultIntrinsics
    /\ projPlanes = <<Rat(1, 10), Rat(100, 1)>>
    /\ projMatrix = ZeroMatrix
    /\ projClip = NoClip
    /\ projStage = "idle"

(***************************************************************************)
(* types.hpp: RenderOutput                                                 *)
(***************************************************************************)
\* a default-constructed RenderOutput
EmptyOutput == [rgb |-> <<>>, depth |-> <<>>, mask |-> <<>>, width |-> 0, height |-> 0]

\* std::vector::resize(n, fill): the first n elements are kept, new ones are fill
Resize(vec, n, fill) == [i \in 1..n |-> IF i <= Len(vec) THEN vec[i] ELSE fill]

\* an allocate that sets the width and height of an empty RenderOutput only
allocate_keepDims(out, w, h) ==
    [rgb    |-> Resize(out.rgb, w * h * 3, 0),
     depth  |-> Resize(out.depth, w * h, Zero),
     mask   |-> Resize(out.mask, w * h, 0),
     width  |-> IF out.width = 0 THEN w ELSE out.width,
     height |-> IF out.height = 0 THEN h ELSE out.height]

\* RenderOutput::allocate
allocate(out, w, h) ==
    [rgb    |-> Resize(out.rgb, w * h * 3, 0),
     depth  |-> Resize(out.depth, w * h, Zero),
     mask   |-> Resize(out.mask, w * h, 0),
     width  |-> w,
     height |-> h]

(***************************************************************************)
(* depth_mesh.cpp: DepthMesh                                               *)
(***************************************************************************)
\* std::numeric_limits<float>::max(), above every depth of the model
FLT_MAX == Rat(1000000, 1)

channels(m) ==
    CASE m.type = "CV_8UC1" -> 1
      [] m.type = "CV_8UC3" -> 3
      [] m.type = "CV_8UC4" -> 4
      [] OTHER -> 1

\* the three-channel BGR image DepthMesh::build stores for an input image:
\* a clone, cv::COLOR_BGRA2BGR or cv::COLOR_GRAY2BGR
toBGR(rgb) ==
    IF channels(rgb) = 3 THEN rgb
    ELSE IF channels(rgb) = 4
         THEN Mat("CV_8UC3", rgb.rows, rgb.cols,
                  [i \in 1..Len(rgb.data) |-> <<rgb.data[i][1], rgb.data[i][2], rgb.data[i][3]>>])
         ELSE Mat("CV_8UC3", rgb.rows, rgb.cols,
                  [i \in 1..Len(rgb.data) |-> <<rgb.data[i], rgb.data[i], rgb.data[i]>>])

\* the statistics loop of DepthMesh::build over the vertices from index i on
RECURSIVE depthStats(_, _, _, _)
depthStats(i, vertices, lo, hi) ==
    IF i > Len(vertices) THEN <<lo, hi>>
    ELSE IF RGt(vertices[i].z, Zero)
         THEN depthStats(i + 1, vertices, RMin(lo, vertices[i].z), RMax(hi, vertices[i].z))
         ELSE depthStats(i + 1, vertices, lo, hi)

\* DepthMesh::clear
ClearedDepthMesh ==
    [mesh_ |-> EmptyMesh, texture_ |-> EmptyMat, intrinsics_ |-> DefaultIntrinsics,
     minDepth_ |-> Zero, maxDepth_ |-> Zero]

\* a build that does not compare the sizes of the image and the depth map
build_noDimensionCheck(rgb, depth, intrinsics, thresholds) ==
    LET K == [intrinsics EXCEPT !.width = depth.cols, !.height = depth.rows]
        m == generate(thresholds, depth, K, EmptyMat).mesh
        st == depthStats(1, m.vertices, FLT_MAX, Zero)
    IN  IF MatEmpty(rgb) \/ MatEmpty(depth) THEN [ok |-> FALSE, dm |-> ClearedDepthMesh]
        ELSE IF MeshEmpty(m)
             THEN [ok |-> FALSE,
                   dm |-> [ClearedDepthMesh EXCEPT !.mesh_ = m, !.texture_ = toBGR(rgb),
                                                   !.intrinsics_ = K]]
        ELSE [ok |-> TRUE,
              dm |-> [mesh_ |-> m, texture_ |-> toBGR(rgb), intrinsics_ |-> K,
                      minDepth_ |-> st[1], maxDepth_ |-> st[2]]]

\* DepthMesh::isValid on a DepthMesh whose mesh_ is m
isValid(m) == ~MeshEmpty(m)

\* DepthMesh::build: the value it returns and the fields it leaves
build(rgb, depth, intrinsics, thresholds) ==
    LET K == [intrinsics EXCEPT !.width = depth.cols, !.height = depth.rows]
        m == generate(thresholds, depth, K, EmptyMat).mesh
        st == depthStats(1, m.vertices, FLT_MAX, Zero)
    IN  IF MatEmpty(rgb) \/ MatEmpty(depth) THEN [ok |-> FALSE, dm |-> ClearedDepthMesh]
        ELSE IF rgb.cols # depth.cols \/ rgb.rows # depth.rows
             THEN [ok |-> FALSE, dm |-> ClearedDepthMesh]
        ELSE IF MeshEmpty(m)
             THEN [ok |-> FALSE,
                   dm |-> [ClearedDepthMesh EXCEPT !.mesh_ = m, !.texture_ = toBGR(rgb),
                                                   !.intrinsics_ = K]]
        ELSE [ok |-> TRUE,
              dm |-> [mesh_ |-> m, texture_ |-> toBGR(rgb), intrinsics_ |-> K,
                      minDepth_ |-> st[1], maxDepth_ |-> st[2]]]

(***************************************************************************)
(* The GL server as gl_renderer.cpp and framebuffer.cpp drive it           *)
(***************************************************************************)
\* object names are pairs <<kind, n>>; glGen* hands out the smallest name of
\* the kind that is not in use
GenName(names, kind) ==
    CHOOSE n \in 1..(Cardinality(names) + 1) :
        /\ <<kind, n>> \notin names
        /\ \A k \in 1..(n - 1) : <<kind, k>> \in names

\* glDelete* ignores the name 0
DeleteName(names, kind, n) == names \ {<<kind, n>>}

RFloor(x) == x[1] \div x[2]

Clamp(i, lo, hi) == IF i < lo THEN lo ELSE IF i > hi THEN hi ELSE i

\* conversion of a colour component to 8-bit unsigned normalized: 1.0 is 255
ToUnorm8(c) ==
    LET r == RFloor(RAdd(RMul(c, FromInt(255)), Half))
    IN  Clamp(r, 0, 255)

\* glTexImage2D(GL_RGB8, cols, rows, format by channel count, data): the
\* texel (r, g, b) of every pixel of the cv::Mat, rows in upload order
texImage2D(texture) ==
    [width  |-> texture.cols,
     height |-> texture.rows,
     texels |-> [i \in 1..Len(texture.data) |->
                    CASE channels(texture) = 3 ->
                            <<texture.data[i][3], texture.data[i][2], texture.data[i][1]>>
                      [] channels(texture) = 4 ->
                            <<texture.data[i][3], texture.data[i][2], texture.data[i][1]>>
                      [] OTHER -> <<texture.data[i], 0, 0>>]]

NoImage == [width |-> 0, height |-> 0, texels |-> <<>>]

Texel(img, i, j) == img.texels[j * img.width + i + 1]

\* texture(uRGBTexture, st) under GL_LINEAR and GL_CLAMP_TO_EDGE: the
\* (r, g, b, 1.0) of the bilinear blend of the four nearest texels
texture2D(img, st) ==
    LET x  == RSub(RMul(st[1], FromInt(img.width)), Half)
        y  == RSub(RMul(st[2], FromInt(img.height)), Half)
        i0 == RFloor(x)
        j0 == RFloor(y)
        a  == RSub(x, FromInt(i0))
        b  == RSub(y, FromInt(j0))
        ci0 == Clamp(i0, 0, img.width - 1)
        ci1 == Clamp(i0 + 1, 0, img.width - 1)
        cj0 == Clamp(j0, 0, img.height - 1)
        cj1 == Clamp(j0 + 1, 0, img.height - 1)
        mix(p, q, t) == RAdd(RMul(RSub(One, t), p), RMul(t, q))
        \* the blend of the stored bytes, then their normalization by 255
        chan(c) == RDiv(mix(mix(FromInt(Texel(img, ci0, cj0)[c]), FromInt(Texel(img, ci1, cj0)[c]), a),
                            mix(FromInt(Texel(img, ci0, cj1)[c]), FromInt(Texel(img, ci1, cj1)[c]), a),
                            b),
                        FromInt(255))
    IN  <<chan(1), chan(2), chan(3), One>>

\* one pixel of the framebuffer: its values in the RGBA8, R32F and R8 colour
\* attachments and in the depth renderbuffer
Pixel(rgba, metric, m, z) == [color0 |-> rgba, color1 |-> metric, color2 |-> m, depth |-> z]

\* the images of the attachments of a w x h framebuffer with every pixel the
\* same; pixel (x, y) of the raster, y upwards, is at index y * w + x + 1
Images(w, h, pixel) == [i \in 1..(w * h) |-> pixel]

NoImages == <<>>

\* what freshly allocated attachment storage may hold: GL leaves it undefined
FreshImages(w, h) ==
    { Images(w, h, Pixel(<<0, 0, 0, 0>>, Zero, 0, Zero)),
      Images(w, h, Pixel(<<205, 205, 205, 205>>, Rat(7, 1), 0, Half)) }

\* glClear with only GL_DEPTH_BUFFER_BIT
glClear_depthOnly(att) ==
    [i \in 1..Len(att) |-> [att[i] EXCEPT !.depth = One]]

\* glClearColor(0, 0, 0, 0); glClearDepthf(1.0);
\* glClear(GL_COLOR_BUFFER_BIT | GL_DEPTH_BUFFER_BIT) on the three draw buffers
glClear(att) ==
    [i \in 1..Len(att) |-> Pixel(<<0, 0, 0, 0>>, Zero, 0, One)]

\* window coordinates of a clip position under glViewport(0, 0, w, h) and
\* the default depth range
windowOf(clip, w, h) ==
    LET n == ndcOf(clip)
    IN  [x |-> RMul(RDiv(RAdd(n.x, One), Two), FromInt(w)),
         y |-> RMul(RDiv(RAdd(n.y, One), Two), FromInt(h)),
         z |-> RDiv(RAdd(n.z, One), Two)]

\* twice the signed area of the window triangle (a, b, p)
EdgeFn(a, b, p) ==
    RSub(RMul(RSub(b.x, a.x), RSub(p.y, a.y)), RMul(RSub(b.y, a.y), RSub(p.x, a.x)))

NoFragment ==
    [coverage |-> "none", z |-> Zero, vTexCoord |-> <<Zero, Zero>>, vDepth |-> Zero]

\* the vertex stage of a draw into a w x h viewport: for every vertex of the
\* vertex buffer, the outputs of the vertex shader and the window coordinates
vertexStage(uProjection, vbo, w, h) ==
    [k \in 1..Len(vbo) |->
        [clip |-> vertexShader(uProjection, vbo[k]),
         window |-> windowOf(vertexShader(uProjection, vbo[k]), w, h)]]

\* rasterization of triangle tri at the centre of raster pixel (px, py): how
\* the centre lies to the triangle, the window depth there, and the varyings
\* of the vertex shader interpolated with perspective correction
rasterize(verts, tri, px, py) ==
    LET c0 == verts[tri.v0 + 1].clip
        c1 == verts[tri.v1 + 1].clip
        c2 == verts[tri.v2 + 1].clip
        p0 == verts[tri.v0 + 1].window
        p1 == verts[tri.v1 + 1].window
        p2 == verts[tri.v2 + 1].window
        p  == [x |-> RAdd(FromInt(px), Half), y |-> RAdd(FromInt(py), Half)]
        area == EdgeFn(p0, p1, p2)
        b0 == RDiv(EdgeFn(p1, p2, p), area)
        b1 == RDiv(EdgeFn(p2, p0, p), area)
        b2 == RDiv(EdgeFn(p0, p1, p), area)
        sum3(x, y, z) == RAdd(RAdd(x, y), z)
        iw == sum3(RDiv(b0, c0.w), RDiv(b1, c1.w), RDiv(b2, c2.w))
        persp(f0, f1, f2) ==
            RDiv(sum3(RDiv(RMul(b0, f0), c0.w), RDiv(RMul(b1, f1), c1.w),
                      RDiv(RMul(b2, f2), c2.w)), iw)
    IN  IF area = Zero \/ RLt(b0, Zero) \/ RLt(b1, Zero) \/ RLt(b2, Zero) THEN NoFragment
        ELSE [coverage |-> IF b0 = Zero \/ b1 = Zero \/ b2 = Zero THEN "edge" ELSE "inside",
              z |-> sum3(RMul(b0, p0.z), RMul(b1, p1.z), RMul(b2, p2.z)),
              vTexCoord |-> <<persp(c0.vTexCoord[1], c1.vTexCoord[1], c2.vTexCoord[1]),
                              persp(c0.vTexCoord[2], c1.vTexCoord[2], c2.vTexCoord[2])>>,
              vDepth |-> persp(c0.vDepth, c1.vDepth, c2.vDepth)]

\* a fragment shader that writes the window depth as the metric depth
fragmentShader_windowDepth(img, frag) ==
    [outColor |-> texture2D(img, frag.vTexCoord), outDepth |-> frag.z, outMask |-> One]

\* the fragment shader: outColor = texture(uRGBTexture, vTexCoord),
\* outDepth = vDepth, outMask = 1.0
fragmentShader(img, frag) ==
    [outColor |-> texture2D(img, frag.vTexCoord), outDepth |-> frag.vDepth, outMask |-> One]

\* per-fragment operations with the depth test left disabled
writeFragment_noDepthTest(pixel, img, frag) ==
    IF RLt(frag.z, Zero) \/ RGt(frag.z, One) THEN pixel
    ELSE LET out == fragmentShader(img, frag)
         IN  Pixel(<<ToUnorm8(out.outColor[1]), ToUnorm8(out.outColor[2]),
                     ToUnorm8(out.outColor[3]), ToUnorm8(out.outColor[4])>>,
                   out.outDepth,
                   ToUnorm8(out.outMask),
                   frag.z)

\* the per-fragment operations on a pixel: clipping to the depth range, the
\* GL_LESS depth test, and the writes to the RGBA8, R32F and R8 colour
\* attachments and to the depth buffer
writeFragment(pixel, img, frag) ==
    IF RLt(frag.z, Zero) \/ RGt(frag.z, One) \/ ~RLt(frag.z, pixel.depth) THEN pixel
    ELSE LET out == fragmentShader(img, frag)
         IN  Pixel(<<ToUnorm8(out.outColor[1]), ToUnorm8(out.outColor[2]),
                     ToUnorm8(out.outColor[3]), ToUnorm8(out.outColor[4])>>,
                   out.outDepth,
                   ToUnorm8(out.outMask),
                   frag.z)

\* the triangles glDrawElements(GL_TRIANGLES, count, GL_UNSIGNED_INT, 0)
\* assembles from the element buffer of the bound vertex array; with no data
\* store to take count indices from, the core profile draws nothing
drawnTriangles(ebo, count) ==
    IF count \div 3 <= Len(ebo) THEN count \div 3 ELSE 0

\* the rasterizer: what rasterize yields for every triangle of the draw at
\* every pixel centre; pixel i (from 0) of triangle t (from 0) is at index
\* t * w * h + i + 1
rasterizer(verts, ebo, count, w, h) ==
    [k \in 1..(drawnTriangles(ebo, count) * w * h) |->
        rasterize(verts, ebo[((k - 1) \div (w * h)) + 1],
                  ((k - 1) % (w * h)) % w, ((k - 1) % (w * h)) \div w)]

\* raster pixel i (from 0) under the fragments of the triangles from t on,
\* in primitive order; a pixel centre inside a triangle yields a fragment,
\* one on an edge of a triangle does if the rasterizer lets the triangle own
\* its edges
RECURSIVE drawPixel(_, _, _, _, _, _, _, _)
drawPixel(t, pixel, i, frags, numTriangles, numPixels, img, owners) ==
    IF t >= numTriangles THEN pixel
    ELSE LET produced ==
                 \/ frags[t * numPixels + i + 1].coverage = "inside"
                 \/ frags[t * numPixels + i + 1].coverage = "edge" /\ t \in owners
         IN  drawPixel(t + 1,
                       IF produced
                       THEN writeFragment(pixel, img, frags[t * numPixels + i + 1])
                       ELSE pixel,
                       i, frags, numTriangles, numPixels, img, owners)

\* glDrawElements(GL_TRIANGLES, count, GL_UNSIGNED_INT, 0) into the images
\* att, given the output of the rasterizer
drawElements(att, frags, numTriangles, img, owners) ==
    [i \in 1..Len(att) |->
        drawPixel(0, att[i], i - 1, frags, numTriangles, Len(att), img, owners)]

(***************************************************************************)
(* framebuffer.cpp: Framebuffer                                            *)
(***************************************************************************)
\* the fields of a Framebuffer
FramebufferFields(fbo, textures, rbo, w, h) ==
    [fboId_ |-> fbo, colorTextures_ |-> textures, depthRbo_ |-> rbo,
     width_ |-> w, height_ |-> h]

NoFramebuffer == FramebufferFields(0, <<0, 0, 0>>, 0, 0, 0)

\* Framebuffer::destroy: the names left in use
destroyNames(names, fb) ==
    names \ { <<"framebuffer", fb.fboId_>>, <<"texture", fb.colorTextures_[1]>>,
              <<"texture", fb.colorTextures_[2]>>, <<"texture", fb.colorTextures_[3]>>,
              <<"renderbuffer", fb.depthRbo_>> }

\* a Framebuffer::create that does not start with destroy()
createFramebuffer_noDestroy(names, fb, w, h) ==
    LET n0 == names
        fbo == GenName(n0, "framebuffer")
        n1 == n0 \cup {<<"framebuffer", fbo>>}
        t0 == GenName(n1, "texture")
        n2 == n1 \cup {<<"texture", t0>>}
        t1 == GenName(n2, "texture")
        n3 == n2 \cup {<<"texture", t1>>}
        t2 == GenName(n3, "texture")
        n4 == n3 \cup {<<"texture", t2>>}
        rbo == GenName(n4, "renderbuffer")
    IN  [fb |-> FramebufferFields(fbo, <<t0, t1, t2>>, rbo, w, h),
         names |-> n4 \cup {<<"renderbuffer", rbo>>}]

\* Framebuffer::create(w, h) on framebuffer fb when the framebuffer status is
\* complete: the new fields and the names in use
createFramebuffer(names, fb, w, h) ==
    LET n0 == destroyNames(names, fb)
        fbo == GenName(n0, "framebuffer")
        n1 == n0 \cup {<<"framebuffer", fbo>>}
        t0 == GenName(n1, "texture")
        n2 == n1 \cup {<<"texture", t0>>}
        t1 == GenName(n2, "texture")
        n3 == n2 \cup {<<"texture", t1>>}
        t2 == GenName(n3, "texture")
        n4 == n3 \cup {<<"texture", t2>>}
        rbo == GenName(n4, "renderbuffer")
    IN  [fb |-> FramebufferFields(fbo, <<t0, t1, t2>>, rbo, w, h),
         names |-> n4 \cup {<<"renderbuffer", rbo>>}]

\* Framebuffer::readRGB: the RGBA8 attachment read with glReadPixels(GL_RGBA,
\* GL_UNSIGNED_BYTE), rows flipped, R, G and B kept
readRGB(att, w, h) ==
    [d \in 1..(w * h * 3) |->
        LET dstIdx == ((d - 1) \div 3) * 3
            c == (d - 1) % 3
            y == (dstIdx \div 3) \div w
            x == (dstIdx \div 3) % w
            srcY == h - 1 - y
        IN  att[srcY * w + x + 1].color0[c + 1]]

\* a readDepth that copies the rows in the order glReadPixels returns them
readDepth_noFlip(att, w, h) ==
    [d \in 1..(w * h) |-> att[d].color1]

\* Framebuffer::readDepth: the R32F attachment read with glReadPixels(GL_RED,
\* GL_FLOAT), rows flipped
readDepth(att, w, h) ==
    [d \in 1..(w * h) |->
        LET y == (d - 1) \div w
            x == (d - 1) % w
            srcY == h - 1 - y
        IN  att[srcY * w + x + 1].color1]

\* Framebuffer::readMask: the R8 attachment read with glReadPixels(GL_RED,
\* GL_UNSIGNED_BYTE), rows flipped
readMask(att, w, h) ==
    [d \in 1..(w * h) |->
        LET y == (d - 1) \div w
            x == (d - 1) % w
            srcY == h - 1 - y
        IN  att[srcY * w + x + 1].color2]

(***************************************************************************)
(* The renderer driven as main.cpp and the tests drive it                  *)
(***************************************************************************)
\* intrinsics of the 2 x 2 source images
RenderSourceK == Intrinsics(One, One, One, One, 2, 2)

\* pairs of a source image and a source depth map: a three-channel image on
\* a continuous surface, a one-channel image on a surface with a hole, a
\* step that leaves no triangle, an image of another size, and no image
BuildInputs ==
    { << Mat("CV_8UC3", 2, 2, << <<10, 20, 30>>, <<40, 50, 60>>, <<70, 80, 90>>, <<100, 110, 120>> >>),
         Mat("CV_32F", 2, 2, <<Rat(2, 1), Rat(4, 1), Rat(4, 1), Rat(2, 1)>>) >>,
      << Mat("CV_8UC1", 2, 2, <<50, 100, 150, 200>>),
         Mat("CV_32F", 2, 2, <<Rat(4, 1), NaN, Rat(8, 1), Rat(4, 1)>>) >>,
      << Mat("CV_8UC1", 2, 2, <<50, 100, 150, 200>>),
         Mat("CV_32F", 2, 2, <<Rat(2, 1), Rat(10, 1), Rat(2, 1), Rat(10, 1)>>) >>,
      << Mat("CV_8UC3", 1, 1, << <<10, 20, 30>> >>),
         Mat("CV_32F", 2, 2, <<Rat(2, 1), Rat(4, 1), Rat(4, 1), Rat(2, 1)>>) >>,
      << EmptyMat,
         Mat("CV_32F", 2, 2, <<Rat(2, 1), Rat(4, 1), Rat(4, 1), Rat(2, 1)>>) >> }

\* target intrinsics: the source camera, zooms at other resolutions, and an
\* empty image
TargetIntrinsics ==
    { RenderSourceK,
      Intrinsics(Rat(4, 1), Rat(4, 1), Rat(5, 4), Half, 2, 1),
      Intrinsics(Rat(2, 1), Rat(2, 1), Half, Half, 1, 1),
      Intrinsics(One, One, Zero, Half, 0, 1) }

\* near and far planes
RenderPlanes == { <<One, Rat(5, 1)>>, <<Rat(3, 1), Rat(5, 1)>> }

\* thresholds under which depths up to a factor of two apart are continuous
RenderThresholds == DepthThresholds(One, Two)

\* the record of a call: the operation, whether it succeeded, for a render
\* its target intrinsics, its planes and the size the RenderOutput had before,
\* and for a build its image and its depth map
NoCall ==
    [op |-> "none", ok |-> TRUE, targetK |-> DefaultIntrinsics, planes |-> <<Zero, Zero>>,
     outputBefore |-> <<0, 0>>, rgb |-> EmptyMat, depth |-> EmptyMat]

RenderCalled(ok, targetK, planes) ==
    [NoCall EXCEPT !.op = "render", !.ok = ok, !.targetK = targetK, !.planes = planes,
                   !.outputBefore = <<output.width, output.height>>]

Called(op, ok) == [NoCall EXCEPT !.op = op, !.ok = ok]

\* the state after the construction of a DepthMesh, a GLRenderer and a
\* RenderOutput
RenderInit ==
    /\ mesh_ = EmptyMesh /\ texture_ = EmptyMat /\ intrinsics_ = DefaultIntrinsics
    /\ minDepth_ = Zero /\ maxDepth_ = Zero
    /\ initialized_ = FALSE /\ eglContext_ = [initialized_ |-> FALSE]
    /\ programId_ = 0 /\ vao_ = 0 /\ vbo_ = 0 /\ ebo_ = 0 /\ rgbTexture_ = 0
    /\ numIndices_ = 0
    /\ fboId_ = 0 /\ colorTextures_ = <<0, 0, 0>> /\ depthRbo_ = 0
    /\ width_ = 0 /\ height_ = 0
    /\ glNames = {} /\ vboData = <<>> /\ eboData = <<>> /\ texImage = NoImage
    /\ attachments = NoImages
    /\ glIssued = <<>>
    /\ output = EmptyOutput
    /\ call = NoCall
    /\ numCalls = 0

RenderIdle == RenderInit

\* GL commands issued in order while the context is in state live
Gl(cmds, live) == [i \in 1..Len(cmds) |-> [cmd |-> cmds[i], live |-> live]]

\* the GL commands of Framebuffer::destroy on framebuffer fb
destroyCommands(fb) ==
    (IF fb.fboId_ # 0 THEN <<"glDeleteFramebuffers">> ELSE <<>>)
    \o (IF fb.colorTextures_[1] # 0 THEN <<"glDeleteTextures">> ELSE <<>>)
    \o (IF fb.colorTextures_[2] # 0 THEN <<"glDeleteTextures">> ELSE <<>>)
    \o (IF fb.colorTextures_[3] # 0 THEN <<"glDeleteTextures">> ELSE <<>>)
    \o (IF fb.depthRbo_ # 0 THEN <<"glDeleteRenderbuffers">> ELSE <<>>)

\* the GL commands of Framebuffer::create up to the completeness check
createCommands(fb) ==
    destroyCommands(fb)
    \o <<"glGenFramebuffers", "glGenTextures", "glGenTextures", "glGenTextures",
         "glGenRenderbuffers", "glCheckFramebufferStatus">>

\* the GL commands of Shader::loadFromSource: the old program is deleted,
\* the shaders are compiled and, if that went well, linked
shaderCommands(program, shaderOk) ==
    (IF program # 0 THEN <<"glDeleteProgram">> ELSE <<>>)
    \o <<"glCreateShader">>
    \o (IF shaderOk THEN <<"glLinkProgram">> ELSE <<>>)

\* the GL commands of Shader::destroy and GLRenderer::deleteBuffers
deleteCommands(program, texture, ebo, vbo, vao) ==
    (IF program # 0 THEN <<"glDeleteProgram">> ELSE <<>>)
    \o (IF texture # 0 THEN <<"glDeleteTextures">> ELSE <<>>)
    \o (IF ebo # 0 THEN <<"glDeleteBuffers">> ELSE <<>>)
    \o (IF vbo # 0 THEN <<"glDeleteBuffers">> ELSE <<>>)
    \o (IF vao # 0 THEN <<"glDeleteVertexArrays">> ELSE <<>>)

\* depthMesh.build(rgb, depth, sourceK, thresholds) on the DepthMesh
buildMesh(rgb, depth) ==
    \E r \in { build(rgb, depth, RenderSourceK, RenderThresholds) } :
        /\ mesh_' = r.dm.mesh_
        /\ texture_' = r.dm.texture_
        /\ intrinsics_' = r.dm.intrinsics_
        /\ minDepth_' = r.dm.minDepth_
        /\ maxDepth_' = r.dm.maxDepth_
        /\ call' = [Called("build", r.ok) EXCEPT !.rgb = rgb, !.depth = depth]
        /\ glIssued' = <<>>
        /\ UNCHANGED <<rendererVars, framebufferVars, glVars, output>>

\* an initialize that sets initialized_ before the shaders are built
initialize_flagBeforeShaders ==
    \E contextOk \in BOOLEAN, shaderOk \in BOOLEAN :
        /\ IF initialized_
           THEN /\ call' = Called("initialize", TRUE)
                /\ glIssued' = <<>>
                /\ UNCHANGED <<rendererVars, glNames>>
           ELSE IF ~eglContext_.initialized_ /\ ~contextOk
           THEN /\ call' = Called("initialize", FALSE)
                /\ glIssued' = <<>>
                /\ UNCHANGED <<rendererVars, glNames>>
           ELSE IF ~shaderOk
           THEN /\ eglContext_' = [initialized_ |-> TRUE]
                /\ programId_' = 0
                /\ glNames' = DeleteName(glNames, "program", programId_)
                /\ glIssued' = Gl(shaderCommands(programId_, FALSE), eglContext_'.initialized_)
                /\ initialized_' = TRUE
                /\ call' = Called("initialize", FALSE)
                /\ UNCHANGED <<vao_, vbo_, ebo_, rgbTexture_, numIndices_>>
           ELSE LET n0 == DeleteName(glNames, "program", programId_)
                    prog == GenName(n0, "program")
                    vao == GenName(n0, "vertexArray")
                    vbo == GenName(n0, "buffer")
                    ebo == GenName(n0 \cup {<<"buffer", vbo>>}, "buffer")
                IN  /\ eglContext_' = [initialized_ |-> TRUE]
                    /\ programId_' = prog
                    /\ vao_' = vao /\ vbo_' = vbo /\ ebo_' = ebo
                    /\ glNames' = n0 \cup { <<"program", prog>>, <<"vertexArray", vao>>,
                                            <<"buffer", vbo>>, <<"buffer", ebo>> }
                    /\ glIssued' = Gl(shaderCommands(programId_, TRUE)
                                      \o <<"glGenVertexArrays", "glGenBuffers", "glGenBuffers">>,
                                      eglContext_'.initialized_)
                    /\ initialized_' = TRUE
                    /\ call' = Called("initialize", TRUE)
                    /\ UNCHANGED <<rgbTexture_, numIndices_>>
        /\ UNCHANGED <<depthMeshVars, framebufferVars, vboData, eboData, texImage,
                       attachments, output>>

\* GLRenderer::initialize; whether the context can be created and whether
\* the shaders compile and link is up to the platform
initialize ==
    \E contextOk \in BOOLEAN, shaderOk \in BOOLEAN :
        /\ IF initialized_
           THEN /\ call' = Called("initialize", TRUE)
                /\ glIssued' = <<>>
                /\ UNCHANGED <<rendererVars, glNames>>
           ELSE IF ~eglContext_.initialized_ /\ ~contextOk
           THEN /\ call' = Called("initialize", FALSE)
                /\ glIssued' = <<>>
                /\ UNCHANGED <<rendererVars, glNames>>
           ELSE IF ~shaderOk
           THEN /\ eglContext_' = [initialized_ |-> TRUE]
                /\ programId_' = 0
                /\ glNames' = DeleteName(glNames, "program", programId_)
                /\ glIssued' = Gl(shaderCommands(programId_, FALSE), eglContext_'.initialized_)
                /\ call' = Called("initialize", FALSE)
                /\ UNCHANGED <<initialized_, vao_, vbo_, ebo_, rgbTexture_, numIndices_>>
           ELSE LET n0 == DeleteName(glNames, "program", programId_)
                    prog == GenName(n0, "program")
                    vao == GenName(n0, "vertexArray")
                    vbo == GenName(n0, "buffer")
                    ebo == GenName(n0 \cup {<<"buffer", vbo>>}, "buffer")
                IN  /\ eglContext_' = [initialized_ |-> TRUE]
                    /\ programId_' = prog
                    /\ vao_' = vao /\ vbo_' = vbo /\ ebo_' = ebo
                    /\ glNames' = n0 \cup { <<"program", prog>>, <<"vertexArray", vao>>,
                                            <<"buffer", vbo>>, <<"buffer", ebo>> }
                    /\ glIssued' = Gl(shaderCommands(programId_, TRUE)
                                      \o <<"glGenVertexArrays", "glGenBuffers", "glGenBuffers">>,
                                      eglContext_'.initialized_)
                    /\ initialized_' = TRUE
                    /\ call' = Called("initialize", TRUE)
                    /\ UNCHANGED <<rgbTexture_, numIndices_>>
        /\ UNCHANGED <<depthMeshVars, framebufferVars, vboData, eboData, texImage,
                       attachments, output>>

\* GLRenderer::uploadMesh(depthMesh.getMesh())
uploadMesh ==
    /\ IF ~initialized_ \/ MeshEmpty(mesh_)
       THEN /\ call' = Called("uploadMesh", FALSE)
            /\ glIssued' = <<>>
            /\ UNCHANGED <<vboData, eboData, numIndices_>>
       ELSE /\ glIssued' = Gl(<<"glBindVertexArray", "glBufferData", "glBufferData">>,
                              eglContext_.initialized_)
            /\ vboData' = mesh_.vertices
            /\ eboData' = mesh_.triangles
            /\ numIndices_' = Len(mesh_.triangles) * 3
            /\ call' = Called("uploadMesh", TRUE)
    /\ UNCHANGED <<initialized_, eglContext_, programId_, vao_, vbo_, ebo_, rgbTexture_>>
    /\ UNCHANGED <<depthMeshVars, framebufferVars, glNames, texImage, attachments, output>>

\* an uploadTexture that creates a texture object on every call
uploadTexture_alwaysGen ==
    /\ IF ~initialized_ \/ MatEmpty(texture_)
       THEN /\ call' = Called("uploadTexture", FALSE)
            /\ glIssued' = <<>>
            /\ UNCHANGED <<rgbTexture_, glNames, texImage>>
       ELSE /\ glIssued' = Gl(<<"glGenTextures", "glTexImage2D">>, eglContext_.initialized_)
            /\ rgbTexture_' = GenName(glNames, "texture")
            /\ glNames' = glNames \cup {<<"texture", rgbTexture_'>>}
            /\ texImage' = texImage2D(texture_)
            /\ call' = Called("uploadTexture", TRUE)
    /\ UNCHANGED <<initialized_, eglContext_, programId_, vao_, vbo_, ebo_, numIndices_>>
    /\ UNCHANGED <<depthMeshVars, framebufferVars, vboData, eboData, attachments, output>>

\* an uploadTexture that creates the texture object before it looks at the
\* image
uploadTexture_genBeforeCheck ==
    /\ IF ~initialized_
       THEN /\ call' = Called("uploadTexture", FALSE)
            /\ glIssued' = <<>>
            /\ UNCHANGED <<rgbTexture_, glNames, texImage>>
       ELSE /\ rgbTexture_' = IF rgbTexture_ = 0 THEN GenName(glNames, "texture")
                                                 ELSE rgbTexture_
            /\ glNames' = glNames \cup {<<"texture", rgbTexture_'>>}
            /\ IF MatEmpty(texture_)
               THEN /\ call' = Called("uploadTexture", FALSE)
                    /\ glIssued' = Gl(IF rgbTexture_ = 0 THEN <<"glGenTextures">> ELSE <<>>,
                                      eglContext_.initialized_)
                    /\ UNCHANGED texImage
               ELSE /\ texImage' = texImage2D(texture_)
                    /\ glIssued' = Gl((IF rgbTexture_ = 0 THEN <<"glGenTextures">> ELSE <<>>)
                                      \o <<"glTexImage2D">>, eglContext_.initialized_)
                    /\ call' = Called("uploadTexture", TRUE)
    /\ UNCHANGED <<initialized_, eglContext_, programId_, vao_, vbo_, ebo_, numIndices_>>
    /\ UNCHANGED <<depthMeshVars, framebufferVars, vboData, eboData, attachments, output>>

\* GLRenderer::uploadTexture(depthMesh.getTexture())
uploadTexture ==
    /\ IF ~initialized_ \/ MatEmpty(texture_)
       THEN /\ call' = Called("uploadTexture", FALSE)
            /\ glIssued' = <<>>
            /\ UNCHANGED <<rgbTexture_, glNames, texImage>>
       ELSE /\ glIssued' = Gl((IF rgbTexture_ = 0 THEN <<"glGenTextures">> ELSE <<>>)
                              \o <<"glTexImage2D">>, eglContext_.initialized_)
            /\ rgbTexture_' = IF rgbTexture_ = 0 THEN GenName(glNames, "texture")
                                                 ELSE rgbTexture_
            /\ glNames' = glNames \cup {<<"texture", rgbTexture_'>>}
            /\ texImage' = texImage2D(texture_)
            /\ call' = Called("uploadTexture", TRUE)
    /\ UNCHANGED <<initialized_, eglContext_, programId_, vao_, vbo_, ebo_, numIndices_>>
    /\ UNCHANGED <<depthMeshVars, framebufferVars, vboData, eboData, attachments, output>>

\* the framebuffer of the renderer as one record
framebuffer_ == FramebufferFields(fboId_, colorTextures_, depthRbo_, width_, height_)

\* a render that calls Framebuffer::create every time
needsCreate_always(fb, outWidth, outHeight) == TRUE

\* the condition under which render calls Framebuffer::create
needsCreate(fb, outWidth, outHeight) ==
    fb.fboId_ = 0 \/ fb.width_ # outWidth \/ fb.height_ # outHeight

\* the outcome of a render that passed its guards and has its framebuffer
\* fb; att holds the images of the attachments before the clear
RenderDraw(targetK, planes, fb, names, att, owners) ==
    \E verts \in { vertexStage(createProjectionMatrix(targetK, planes[1], planes[2]),
                               vboData, fb.width_, fb.height_) } :
    \E frags \in { rasterizer(verts, eboData, numIndices_, fb.width_, fb.height_) } :
        /\ fboId_' = fb.fboId_ /\ colorTextures_' = fb.colorTextures_
        /\ depthRbo_' = fb.depthRbo_
        /\ width_' = fb.width_ /\ height_' = fb.height_
        /\ glNames' = names
        /\ attachments' = drawElements(glClear(att), frags,
                                       drawnTriangles(eboData, numIndices_), texImage, owners)
        /\ output' = [allocate(output, targetK.width, targetK.height) EXCEPT
                         !.rgb = readRGB(attachments', fb.width_, fb.height_),
                         !.depth = readDepth(attachments', fb.width_, fb.height_),
                         !.mask = readMask(attachments', fb.width_, fb.height_)]
        /\ call' = RenderCalled(TRUE, targetK, planes)

\* GLRenderer::render(sourceK, targetK, nearPlane, farPlane, output);
\* whether a framebuffer of positive size is complete, what its fresh storage
\* holds, and which triangles own the pixel centres on their edges, is up to
\* the GL implementation
render(targetK, planes) ==
    LET outWidth == targetK.width
        outHeight == targetK.height
        create == needsCreate(framebuffer_, outWidth, outHeight)
        created == createFramebuffer(glNames, framebuffer_, outWidth, outHeight)
    IN  /\ IF ~initialized_ \/ numIndices_ = 0 \/ rgbTexture_ = 0
           THEN /\ call' = RenderCalled(FALSE, targetK, planes)
                /\ glIssued' = <<>>
                /\ UNCHANGED <<framebufferVars, glNames, attachments, output>>
           ELSE \/ /\ create
                   /\ glIssued' = Gl(createCommands(framebuffer_)
                                     \o destroyCommands(created.fb), eglContext_.initialized_)
                   /\ fboId_' = 0 /\ colorTextures_' = <<0, 0, 0>> /\ depthRbo_' = 0
                   /\ width_' = 0 /\ height_' = 0
                   /\ glNames' = destroyNames(glNames, framebuffer_)
                   /\ attachments' = NoImages
                   /\ call' = RenderCalled(FALSE, targetK, planes)
                   /\ UNCHANGED output
                \/ /\ create => (outWidth > 0 /\ outHeight > 0)
                   /\ glIssued' = Gl((IF create THEN createCommands(framebuffer_) ELSE <<>>)
                                     \o <<"glClear", "glDrawElements", "glReadPixels",
                                          "glReadPixels", "glReadPixels">>,
                                     eglContext_.initialized_)
                   /\ \E att \in IF create THEN FreshImages(outWidth, outHeight)
                                           ELSE {attachments},
                         owners \in SUBSET (0..(drawnTriangles(eboData, numIndices_) - 1)) :
                        RenderDraw(targetK, planes,
                                   IF create THEN created.fb ELSE framebuffer_,
                                   IF create THEN created.names ELSE glNames,
                                   att, owners)
        /\ UNCHANGED <<depthMeshVars, rendererVars, vboData, eboData, texImage>>

\* a cleanup that destroys the context before it deletes the GL objects
cleanup_contextFirst ==
    /\ glIssued' = Gl(destroyCommands(framebuffer_)
                      \o deleteCommands(programId_, rgbTexture_, ebo_, vbo_, vao_),
                      FALSE)
    /\ fboId_' = 0 /\ colorTextures_' = <<0, 0, 0>> /\ depthRbo_' = 0
    /\ width_' = 0 /\ height_' = 0
    /\ programId_' = 0
    /\ rgbTexture_' = 0 /\ ebo_' = 0 /\ vbo_' = 0 /\ vao_' = 0
    /\ eglContext_' = [initialized_ |-> FALSE]
    /\ initialized_' = FALSE
    /\ glNames' = {} /\ vboData' = <<>> /\ eboData' = <<>> /\ texImage' = NoImage
    /\ attachments' = NoImages
    /\ call' = Called("cleanup", TRUE)
    /\ UNCHANGED <<numIndices_, depthMeshVars, output>>

\* GLRenderer::cleanup: the objects are deleted and the context destroyed;
\* numIndices_ keeps its value
cleanup ==
    /\ glIssued' = Gl(destroyCommands(framebuffer_)
                      \o deleteCommands(programId_, rgbTexture_, ebo_, vbo_, vao_),
                      eglContext_.initialized_)
    /\ fboId_' = 0 /\ colorTextures_' = <<0, 0, 0>> /\ depthRbo_' = 0
    /\ width_' = 0 /\ height_' = 0
    /\ programId_' = 0
    /\ rgbTexture_' = 0 /\ ebo_' = 0 /\ vbo_' = 0 /\ vao_' = 0
    /\ eglContext_' = [initialized_ |-> FALSE]
    /\ initialized_' = FALSE
    /\ glNames' = {} /\ vboData' = <<>> /\ eboData' = <<>> /\ texImage' = NoImage
    /\ attachments' = NoImages
    /\ call' = Called("cleanup", TRUE)
    /\ UNCHANGED <<numIndices_, depthMeshVars, output>>

\* one more call of a caller that makes its calls in any order
Counted == numCalls < MaxCalls /\ numCalls' = numCalls + 1

Build ==
    /\ Counted
    /\ \E in \in BuildInputs : buildMesh(in[1], in[2])
    /\ UNCHANGED notRenderVars

Initialize == Counted /\ initialize /\ UNCHANGED notRenderVars

UploadMesh == Counted /\ uploadMesh /\ UNCHANGED notRenderVars

UploadTexture == Counted /\ uploadTexture /\ UNCHANGED notRenderVars

Render ==
    /\ Counted
    /\ \E targetK \in TargetIntrinsics, planes \in RenderPlanes : render(targetK, planes)
    /\ UNCHANGED notRenderVars

Cleanup == Counted /\ cleanup /\ UNCHANGED notRenderVars

\* the caller replaces its RenderOutput by a default-constructed one
NewOutput ==
    /\ Counted
    /\ output' = EmptyOutput
    /\ call' = Called("newOutput", TRUE)
    /\ glIssued' = <<>>
    /\ UNCHANGED <<depthMeshVars, rendererVars, framebufferVars, glVars>>
    /\ UNCHANGED notRenderVars

RenderNext == Build \/ Initialize \/ UploadMesh \/ UploadTexture \/ Render \/ Cleanup \/ NewOutput

\* the state after the construction of a GLRenderer and a RenderOutput, next
\* to a DepthMesh on which build has been called
LifecycleInit ==
    /\ \E in \in BuildInputs :
          \E r \in { build(in[1], in[2], RenderSourceK, RenderThresholds) } :
              /\ mesh_ = r.dm.mesh_ /\ texture_ = r.dm.texture_
              /\ intrinsics_ = r.dm.intrinsics_
              /\ minDepth_ = r.dm.minDepth_ /\ maxDepth_ = r.dm.maxDepth_
    /\ initialized_ = FALSE /\ eglContext_ = [initialized_ |-> FALSE]
    /\ programId_ = 0 /\ vao_ = 0 /\ vbo_ = 0 /\ ebo_ = 0 /\ rgbTexture_ = 0
    /\ numIndices_ = 0
    /\ fboId_ = 0 /\ colorTextures_ = <<0, 0, 0>> /\ depthRbo_ = 0
    /\ width_ = 0 /\ height_ = 0
    /\ glNames = {} /\ vboData = <<>> /\ eboData = <<>> /\ texImage = NoImage
    /\ attachments = NoImages
    /\ glIssued = <<>>
    /\ output = EmptyOutput
    /\ call = NoCall
    /\ numCalls = 0

\* the calls on a GLRenderer
LifecycleNext == Initialize \/ UploadMesh \/ UploadTexture \/ Render \/ Cleanup

(***************************************************************************)
(* A render of triangles stacked over one pixel                            *)
(***************************************************************************)
\* the camera of a 1 x 1 image whose pixel centre is on the optical axis
LayerK == Intrinsics(One, One, Half, Half, 1, 1)

\* camera Z of the triangles: in front of every near plane, on the near
\* planes, between the planes, on the far plane and beyond it
LayerDepthSet == { Half, One, Two, Rat(3, 1), Rat(4, 1), Rat(5, 1), Rat(6, 1) }

\* the texture byte of the triangle at camera Z z: one texel per depth
LayerByte(z) == 20 * RFloor(RMul(z, Two))

\* the depths in increasing order, which is the order of the texels
LayerPalette == << Half, One, Two, Rat(3, 1), Rat(4, 1), Rat(5, 1), Rat(6, 1) >>

LayerTexture ==
    Mat("CV_8UC1", 1, Len(LayerPalette), [k \in 1..Len(LayerPalette) |-> LayerByte(LayerPalette[k])])

\* the texture coordinate of the centre of the texel of depth z
LayerTexCoord(z) ==
    LET k == CHOOSE j \in 1..Len(LayerPalette) : LayerPalette[j] = z
    IN  Rat(2 * k - 1, 2 * Len(LayerPalette))

\* a Mesh of one triangle per depth, each parallel to the image plane and
\* around the optical axis, in the order of depths
LayerMesh(depths) ==
    [vertices |->
        [i \in 1..(3 * Len(depths)) |->
            LET z == depths[((i - 1) \div 3) + 1]
                c == (i - 1) % 3
                t == LayerTexCoord(z)
            IN  CASE c = 0 -> Vertex(RMul(FromInt(-2), z), RMul(FromInt(-2), z), z, t, Half)
                  [] c = 1 -> Vertex(RMul(Two, z), RMul(FromInt(-2), z), z, t, Half)
                  [] OTHER -> Vertex(Zero, RMul(Two, z), z, t, Half)],
     triangles |->
        [k \in 1..Len(depths) |-> Triangle(3 * (k - 1), 3 * (k - 1) + 1, 3 * (k - 1) + 2)]]

LayerInit ==
    /\ layerPlanes \in RenderPlanes
    /\ layerDepths \in UNION { [1..n -> LayerDepthSet] : n \in 1..MaxLayers }
    /\ layerMatrix = ZeroMatrix
    /\ layerOutput = EmptyOutput
    /\ layerDone = FALSE

\* GLRenderer::render(LayerK, LayerK, near, far, output) on an initialized
\* renderer after uploadMesh(LayerMesh(layerDepths)) and
\* uploadTexture(LayerTexture)
RenderLayers ==
    /\ ~layerDone
    /\ \E uProjection \in { createProjectionMatrix(LayerK, layerPlanes[1], layerPlanes[2]) } :
       \E verts \in { vertexStage(uProjection, LayerMesh(layerDepths).vertices, 1, 1) } :
       \E frags \in { rasterizer(verts, LayerMesh(layerDepths).triangles,
                                 3 * Len(layerDepths), 1, 1) } :
       \E fresh \in FreshImages(1, 1) :
       \E att \in { drawElements(glClear(fresh), frags, Len(layerDepths),
                                 texImage2D(LayerTexture), {}) } :
          /\ layerMatrix' = uProjection
          /\ layerOutput' = [allocate(EmptyOutput, 1, 1) EXCEPT
                                !.rgb = readRGB(att, 1, 1),
                                !.depth = readDepth(att, 1, 1),
                                !.mask = readMask(att, 1, 1)]
    /\ layerDone' = TRUE
    /\ UNCHANGED <<layerPlanes, layerDepths>>
    /\ UNCHANGED notLayerVars

LayerNext == RenderLayers

LayerIdle ==
    /\ layerPlanes = <<Zero, Zero>>
    /\ layerDepths = <<>>
    /\ layerMatrix = ZeroMatrix
    /\ layerOutput = EmptyOutput
    /\ layerDone = FALSE

(***************************************************************************)
(* main.cpp: the driver                                                    *)
(***************************************************************************)
\* app::Config: the fields main reads; paths are modelled by their emptiness
Config(rgbPath, depthPath, fx, fy, focalScales, outputWidth, outputHeight, tauRel, tauAbs, nearPlane, farPlane) ==
    [rgbPath |-> rgbPath, depthPath |-> depthPath, fx |-> fx, fy |-> fy,
     focalScales |-> focalScales, outputWidth |-> outputWidth, outputHeight |-> outputHeight,
     tauRel |-> tauRel, tauAbs |-> tauAbs, nearPlane |-> nearPlane, farPlane |-> farPlane]

\* Config::validate: the error message, empty if the configuration is valid
validate(c) ==
    IF c.rgbPath = "" THEN "RGB image path is required"
    ELSE IF c.depthPath = "" THEN "Depth map path is required"
    ELSE IF RLe(c.fx, Zero) \/ RLe(c.fy, Zero) THEN "Focal length (fx, fy) must be positive"
    ELSE IF c.focalScales = <<>> THEN "At least one focal scale is required"
    ELSE IF RLe(c.tauRel, Zero) \/ RLe(c.tauAbs, Zero)
         THEN "Depth thresholds (tau_rel, tau_abs) must be positive"
    ELSE IF RLe(c.nearPlane, Zero) \/ RLe(c.farPlane, Zero) \/ RGe(c.nearPlane, c.farPlane)
         THEN "Invalid near/far planes"
    ELSE ""

\* the focal scales of --focal_list: parseFloatList keeps every number
\* std::stof reads, a zero or a negative one included
FocalScaleSet == { RNeg(One), Zero, Half, One, Two }

\* the configurations parseArgs hands to main: focal lists of up to MaxScales
\* scales, the planes, and an output resolution of 0 x 0 (that of the input)
\* or 2 x 1
Configs ==
    { Config("rgb.png", "depth.png", RenderSourceK.fx, RenderSourceK.fy, scales,
             size[1], size[2], RenderThresholds.tau_rel, RenderThresholds.tau_abs,
             planes[1], planes[2]) :
        scales \in UNION { [1..n -> FocalScaleSet] : n \in 0..MaxScales },
        size \in { <<0, 0>>, <<2, 1>> },
        planes \in RenderPlanes }

\* the target intrinsics main makes of sourceK, a focal scale and the output
\* resolution
targetOf(sourceK, scale, outputW, outputH) ==
    LET resized == outputW # sourceK.width \/ outputH # sourceK.height
    IN  Intrinsics(RMul(sourceK.fx, scale), RMul(sourceK.fy, scale),
                   IF resized THEN RDiv(RMul(sourceK.cx, FromInt(outputW)), FromInt(sourceK.width))
                              ELSE sourceK.cx,
                   IF resized THEN RDiv(RMul(sourceK.cy, FromInt(outputH)), FromInt(sourceK.height))
                              ELSE sourceK.cy,
                   outputW, outputH)

\* a call of the driver, as recorded in the order of calls, with the index of
\* the focal scale at the time
DriverCall(op, ok) == [op |-> op, ok |-> ok, scale |-> scaleIdx]

\* the state when main has parsed its arguments
DriverInit ==
    /\ RenderInit
    /\ config \in Configs
    /\ loaded \in BuildInputs
    /\ pc = "validate"
    /\ scaleIdx = 0
    /\ trace = <<>>
    /\ saved = <<>>
    /\ exitCode = -1

\* config.validate(): an error ends the run with 1
Validate ==
    /\ pc = "validate"
    /\ pc' = IF validate(config) = "" THEN "load" ELSE "return1"
    /\ UNCHANGED <<config, loaded, scaleIdx, trace, saved, exitCode>>
    /\ UNCHANGED <<renderVars, notDriverVars>>

\* loadRGB and loadDepth: an empty image or depth map, or a mismatch of their
\* sizes, ends the run with 1
Load ==
    /\ pc = "load"
    /\ pc' = IF MatEmpty(loaded[1]) \/ MatEmpty(loaded[2])
                \/ loaded[1].cols # loaded[2].cols \/ loaded[1].rows # loaded[2].rows
             THEN "return1" ELSE "build"
    /\ UNCHANGED <<config, loaded, scaleIdx, trace, saved, exitCode>>
    /\ UNCHANGED <<renderVars, notDriverVars>>

\* a driver that goes from the build to the uploads without initializing
\* the renderer
DriverBuild_skipInitialize ==
    /\ pc = "build"
    /\ buildMesh(loaded[1], loaded[2])
    /\ trace' = Append(trace, DriverCall("build", call'.ok))
    /\ pc' = IF call'.ok THEN "uploadMesh" ELSE "return1"
    /\ UNCHANGED <<config, loaded, scaleIdx, saved, exitCode, numCalls>>
    /\ UNCHANGED notDriverVars

\* depthMesh.build(...): a failure ends the run with 1
DriverBuild ==
    /\ pc = "build"
    /\ buildMesh(loaded[1], loaded[2])
    /\ trace' = Append(trace, DriverCall("build", call'.ok))
    /\ pc' = IF call'.ok THEN "initialize" ELSE "return1"
    /\ UNCHANGED <<config, loaded, scaleIdx, saved, exitCode, numCalls>>
    /\ UNCHANGED notDriverVars

\* renderer.initialize(...): a failure ends the run with 1
DriverInitialize ==
    /\ pc = "initialize"
    /\ initialize
    /\ trace' = Append(trace, DriverCall("initialize", call'.ok))
    /\ pc' = IF call'.ok THEN "uploadMesh" ELSE "return1Renderer"
    /\ UNCHANGED <<config, loaded, scaleIdx, saved, exitCode, numCalls>>
    /\ UNCHANGED notDriverVars

\* renderer.uploadMesh(depthMesh.getMesh()): a failure ends the run with 1
DriverUploadMesh ==
    /\ pc = "uploadMesh"
    /\ uploadMesh
    /\ trace' = Append(trace, DriverCall("uploadMesh", call'.ok))
    /\ pc' = IF call'.ok THEN "uploadTexture" ELSE "return1Renderer"
    /\ UNCHANGED <<config, loaded, scaleIdx, saved, exitCode, numCalls>>
    /\ UNCHANGED notDriverVars

\* renderer.uploadTexture(depthMesh.getTexture()): a failure ends the run
\* with 1
DriverUploadTexture ==
    /\ pc = "uploadTexture"
    /\ uploadTexture
    /\ trace' = Append(trace, DriverCall("uploadTexture", call'.ok))
    /\ pc' = IF call'.ok THEN "loop" ELSE "return1Renderer"
    /\ UNCHANGED <<config, loaded, scaleIdx, saved, exitCode, numCalls>>
    /\ UNCHANGED notDriverVars

\* the head of the loop over config.focalScales: after the last scale the
\* loop ends, otherwise the body starts with a new RenderOutput
LoopHead ==
    /\ pc = "loop"
    /\ IF scaleIdx < Len(config.focalScales)
       THEN /\ output' = EmptyOutput
            /\ pc' = "render"
       ELSE /\ pc' = "cleanup"
            /\ UNCHANGED output
    /\ UNCHANGED <<depthMeshVars, rendererVars, framebufferVars, glVars, glIssued, call,
                   numCalls>>
    /\ UNCHANGED <<config, loaded, scaleIdx, trace, saved, exitCode>>
    /\ UNCHANGED notDriverVars

\* a loop body that leaves the loop when a render fails
RenderScale_breakOnFailure ==
    /\ pc = "render"
    /\ \E outputW \in { IF config.outputWidth > 0 THEN config.outputWidth
                                                   ELSE RenderSourceK.width },
          outputH \in { IF config.outputHeight > 0 THEN config.outputHeight
                                                    ELSE RenderSourceK.height } :
          render(targetOf(RenderSourceK, config.focalScales[scaleIdx + 1], outputW, outputH),
                 <<config.nearPlane, config.farPlane>>)
    /\ trace' = Append(trace, DriverCall("render", call'.ok))
    /\ saved' = IF call'.ok THEN Append(saved, scaleIdx) ELSE saved
    /\ scaleIdx' = scaleIdx + 1
    /\ pc' = IF call'.ok THEN "loop" ELSE "cleanup"
    /\ UNCHANGED <<config, loaded, exitCode, numCalls>>
    /\ UNCHANGED notDriverVars

\* the body of the loop: renderer.render for the scale; a failure skips to
\* the next scale, a success saves the output under the scale's name
RenderScale ==
    /\ pc = "render"
    /\ \E outputW \in { IF config.outputWidth > 0 THEN config.outputWidth
                                                   ELSE RenderSourceK.width },
          outputH \in { IF config.outputHeight > 0 THEN config.outputHeight
                                                    ELSE RenderSourceK.height } :
          render(targetOf(RenderSourceK, config.focalScales[scaleIdx + 1], outputW, outputH),
                 <<config.nearPlane, config.farPlane>>)
    /\ trace' = Append(trace, DriverCall("render", call'.ok))
    /\ saved' = IF call'.ok THEN Append(saved, scaleIdx) ELSE saved
    /\ scaleIdx' = scaleIdx + 1
    /\ pc' = "loop"
    /\ UNCHANGED <<config, loaded, exitCode, numCalls>>
    /\ UNCHANGED notDriverVars

\* renderer.cleanup() after the loop
DriverCleanup ==
    /\ pc = "cleanup"
    /\ cleanup
    /\ trace' = Append(trace, DriverCall("cleanup", TRUE))
    /\ pc' = "return0"
    /\ UNCHANGED <<config, loaded, scaleIdx, saved, exitCode, numCalls>>
    /\ UNCHANGED notDriverVars

\* return from main before the GLRenderer is constructed
ReturnEarly ==
    /\ pc = "return1"
    /\ exitCode' = 1
    /\ pc' = "done"
    /\ UNCHANGED <<config, loaded, scaleIdx, trace, saved>>
    /\ UNCHANGED <<renderVars, notDriverVars>>

\* return from main after the GLRenderer is constructed: ~GLRenderer calls
\* cleanup
Return ==
    /\ pc \in {"return0", "return1Renderer"}
    /\ cleanup
    /\ trace' = Append(trace, DriverCall("cleanup", TRUE))
    /\ exitCode' = IF pc = "return0" THEN 0 ELSE 1
    /\ pc' = "done"
    /\ UNCHANGED <<config, loaded, scaleIdx, saved, numCalls>>
    /\ UNCHANGED notDriverVars

DriverNext ==
    \/ Validate \/ Load \/ DriverBuild \/ DriverInitialize \/ DriverUploadMesh
    \/ DriverUploadTexture \/ LoopHead \/ RenderScale \/ DriverCleanup
    \/ ReturnEarly \/ Return

DriverIdle ==
    /\ config = Config("", "", Zero, Zero, <<>>, 0, 0, Zero, Zero, Zero, Zero)
    /\ loaded = <<EmptyMat, EmptyMat>>
    /\ pc = "none"
    /\ scaleIdx = 0
    /\ trace = <<>>
    /\ saved = <<>>
    /\ exitCode = -1

(***************************************************************************)
(* egl_context.cpp: GLContext                                              *)
(***************************************************************************)
\* a null handle
nullptr == "nullptr"

\* the fields of a GLContext
GLContextFields(display, context, surface, initialized) ==
    [display_ |-> display, context_ |-> context, surface_ |-> surface,
     initialized_ |-> initialized]

\* GLContext(): all handles null
NoContext == GLContextFields(nullptr, nullptr, nullptr, FALSE)

\* an EGL or loader call: the function, for eglCreateContext the OpenGL
\* version requested (46, 45 or 43, otherwise 0), and whether it succeeded
Egl(fn, arg, ok) == [fn |-> fn, arg |-> arg, ok |-> ok]

\* what the platform answers to the calls of one initialize: whether a
\* display is found (by device or by default), and whether eglInitialize,
\* eglChooseConfig, eglBindAPI, eglCreateContext for 4.6, 4.5 and 4.3,
\* eglCreatePbufferSurface, eglMakeCurrent and gladLoadGL succeed
ContextPlatforms ==
    [display : BOOLEAN, eglInitialize : BOOLEAN, chooseConfig : BOOLEAN, bindAPI : BOOLEAN,
     context46 : BOOLEAN, context45 : BOOLEAN, context43 : BOOLEAN,
     surface : BOOLEAN, makeCurrent : BOOLEAN, gladLoadGL : BOOLEAN]

\* what an operation of GLContext leaves and returns, with the EGL calls it
\* made in order
ContextResult(ctx, ok, error, calls) ==
    [ctx |-> ctx, ok |-> ok, error |-> error, calls |-> calls]

\* GLContext::destroy
GLContext_destroy(c) ==
    ContextResult(NoContext, TRUE, "",
        (IF c.context_ # nullptr THEN <<Egl("eglDestroyContext", 0, TRUE)>> ELSE <<>>)
        \o (IF c.surface_ # nullptr THEN <<Egl("eglDestroySurface", 0, TRUE)>> ELSE <<>>)
        \o (IF c.display_ # nullptr THEN <<Egl("eglTerminate", 0, TRUE)>> ELSE <<>>))

\* a context creation that asks for every version, whatever the answers
createContext_allVersions(p) ==
    [ok |-> p.context46 \/ p.context45 \/ p.context43,
     calls |-> << Egl("eglCreateContext", 46, p.context46),
                  Egl("eglCreateContext", 45, p.context45),
                  Egl("eglCreateContext", 43, p.context43) >>]

\* the eglCreateContext calls of GLContext::initialize: OpenGL 4.6 core, then
\* 4.5 and 4.3 while no context has been obtained
createContext(p) ==
    LET r46 == <<Egl("eglCreateContext", 46, p.context46)>>
        r45 == <<Egl("eglCreateContext", 45, p.context45)>>
        r43 == <<Egl("eglCreateContext", 43, p.context43)>>
    IN  IF p.context46 THEN [ok |-> TRUE, calls |-> r46]
        ELSE IF p.context45 THEN [ok |-> TRUE, calls |-> r46 \o r45]
        ELSE [ok |-> p.context43, calls |-> r46 \o r45 \o r43]

\* a GLContext::initialize that returns without destroy() when the context
\* cannot be made current
GLContext_initialize_keepOnFailure(c, p) ==
    LET found == <<Egl("eglGetDisplay", 0, TRUE)>>
        inited == found \o <<Egl("eglInitialize", 0, TRUE)>>
        chosen == inited \o <<Egl("eglChooseConfig", 0, TRUE)>>
        bound == chosen \o <<Egl("eglBindAPI", 0, TRUE)>>
        terminate == <<Egl("eglTerminate", 0, TRUE)>>
        noDisplay == [c EXCEPT !.display_ = nullptr]
        cc == createContext(p)
        made == GLContextFields("display", "context",
                                IF p.surface THEN "surface" ELSE nullptr, c.initialized_)
        current == bound \o cc.calls
                   \o <<Egl("eglCreatePbufferSurface", 0, p.surface),
                        Egl("eglMakeCurrent", 0, p.makeCurrent)>>
    IN  IF c.initialized_ THEN ContextResult(c, TRUE, "", <<>>)
        ELSE IF ~p.display
        THEN ContextResult(c, FALSE, "Failed to get EGL display",
                           <<Egl("eglGetDisplay", 0, FALSE)>>)
        ELSE IF ~p.eglInitialize
        THEN ContextResult(noDisplay, FALSE, "Failed to initialize EGL",
                           found \o <<Egl("eglInitialize", 0, FALSE)>>)
        ELSE IF ~p.chooseConfig
        THEN ContextResult(noDisplay, FALSE, "Failed to choose EGL config",
                           inited \o <<Egl("eglChooseConfig", 0, FALSE)>> \o terminate)
        ELSE IF ~p.bindAPI
        THEN ContextResult(noDisplay, FALSE, "Failed to bind OpenGL API",
                           chosen \o <<Egl("eglBindAPI", 0, FALSE)>> \o terminate)
        ELSE IF ~cc.ok
        THEN ContextResult(noDisplay, FALSE, "Failed to create EGL context",
                           bound \o cc.calls \o terminate)
        ELSE IF ~p.makeCurrent
        THEN ContextResult(made, FALSE, "Failed to make EGL context current", current)
        ELSE IF ~p.gladLoadGL
        THEN ContextResult(GLContext_destroy(made).ctx, FALSE,
                           "Failed to load OpenGL functions",
                           current \o <<Egl("gladLoadGL", 0, FALSE)>>
                           \o GLContext_destroy(made).calls)
        ELSE ContextResult([made EXCEPT !.initialized_ = TRUE], TRUE, "",
                           current \o <<Egl("gladLoadGL", 0, TRUE)>>)

\* GLContext::initialize under the answers p of the platform
GLContext_initialize(c, p) ==
    LET found == <<Egl("eglGetDisplay", 0, TRUE)>>
        inited == found \o <<Egl("eglInitialize", 0, TRUE)>>
        chosen == inited \o <<Egl("eglChooseConfig", 0, TRUE)>>
        bound == chosen \o <<Egl("eglBindAPI", 0, TRUE)>>
        terminate == <<Egl("eglTerminate", 0, TRUE)>>
        noDisplay == [c EXCEPT !.display_ = nullptr]
        cc == createContext(p)
        made == GLContextFields("display", "context",
                                IF p.surface THEN "surface" ELSE nullptr, c.initialized_)
        current == bound \o cc.calls
                   \o <<Egl("eglCreatePbufferSurface", 0, p.surface),
                        Egl("eglMakeCurrent", 0, p.makeCurrent)>>
    IN  IF c.initialized_ THEN ContextResult(c, TRUE, "", <<>>)
        ELSE IF ~p.display
        THEN ContextResult(c, FALSE, "Failed to get EGL display",
                           <<Egl("eglGetDisplay", 0, FALSE)>>)
        ELSE IF ~p.eglInitialize
        THEN ContextResult(noDisplay, FALSE, "Failed to initialize EGL",
                           found \o <<Egl("eglInitialize", 0, FALSE)>>)
        ELSE IF ~p.chooseConfig
        THEN ContextResult(noDisplay, FALSE, "Failed to choose EGL config",
                           inited \o <<Egl("eglChooseConfig", 0, FALSE)>> \o terminate)
        ELSE IF ~p.bindAPI
        THEN ContextResult(noDisplay, FALSE, "Failed to bind OpenGL API",
                           chosen \o <<Egl("eglBindAPI", 0, FALSE)>> \o terminate)
        ELSE IF ~cc.ok
        THEN ContextResult(noDisplay, FALSE, "Failed to create EGL context",
                           bound \o cc.calls \o terminate)
        ELSE IF ~p.makeCurrent
        THEN ContextResult(GLContext_destroy(made).ctx, FALSE,
                           "Failed to make EGL context current",
                           current \o GLContext_destroy(made).calls)
        ELSE IF ~p.gladLoadGL
        THEN ContextResult(GLContext_destroy(made).ctx, FALSE,
                           "Failed to load OpenGL functions",
                           current \o <<Egl("gladLoadGL", 0, FALSE)>>
                           \o GLContext_destroy(made).calls)
        ELSE ContextResult([made EXCEPT !.initialized_ = TRUE], TRUE, "",
                           current \o <<Egl("gladLoadGL", 0, TRUE)>>)

\* the EGL objects created and not destroyed after the calls from index i on;
\* eglTerminate releases everything of the display
RECURSIVE eglApply(_, _, _)
eglApply(live, calls, i) ==
    IF i > Len(calls) THEN live
    ELSE LET e == calls[i]
         IN  eglApply(
                 CASE e.fn = "eglInitialize" /\ e.ok -> live \cup {"display"}
                   [] e.fn = "eglCreateContext" /\ e.ok -> live \cup {"context"}
                   [] e.fn = "eglCreatePbufferSurface" /\ e.ok -> live \cup {"surface"}
                   [] e.fn = "eglDestroyContext" -> live \ {"context"}
                   [] e.fn = "eglDestroySurface" -> live \ {"surface"}
                   [] e.fn = "eglTerminate" -> {}
                   [] OTHER -> live,
                 calls, i + 1)

\* the record of an operation on the GLContext: what it was, what it
\* returned, the error it printed and the fields it found
ContextCalled(op, ok, error) ==
    [op |-> op, ok |-> ok, error |-> error, before |-> glContext]

\* the state after the construction of a GLContext
ContextInit ==
    /\ glContext = NoContext
    /\ eglLive = {}
    /\ eglLog = <<>>
    /\ ctxCall = [op |-> "none", ok |-> TRUE, error |-> "", before |-> NoContext]
    /\ ctxCalls = 0

ContextIdle == ContextInit

\* context.initialize(deviceIndex)
ContextInitialize ==
    /\ ctxCalls < MaxCalls
    /\ \E p \in ContextPlatforms :
       \E r \in { GLContext_initialize(glContext, p) } :
          /\ glContext' = r.ctx
          /\ eglLog' = r.calls
          /\ eglLive' = eglApply(eglLive, r.calls, 1)
          /\ ctxCall' = ContextCalled("initialize", r.ok, r.error)
    /\ ctxCalls' = ctxCalls + 1
    /\ UNCHANGED notContextVars

\* context.destroy()
ContextDestroy ==
    /\ ctxCalls < MaxCalls
    /\ \E r \in { GLContext_destroy(glContext) } :
          /\ glContext' = r.ctx
          /\ eglLog' = r.calls
          /\ eglLive' = eglApply(eglLive, r.calls, 1)
          /\ ctxCall' = ContextCalled("destroy", r.ok, r.error)
    /\ ctxCalls' = ctxCalls + 1
    /\ UNCHANGED notContextVars

ContextNext == ContextInitialize \/ ContextDestroy

(***************************************************************************)
(* Specifications                                                          *)
(***************************************************************************)
vars == <<meshGenVars, discVars, projVars, renderVars, layerVars, driverVars, contextVars>>

\* MeshGenerator on arbitrary small depth maps
InitMeshGen == MeshGenInit /\ DiscIdle /\ ProjIdle /\ RenderIdle /\ LayerIdle /\ DriverIdle /\ ContextIdle
SpecMeshGen == InitMeshGen /\ [][MeshGenNext]_vars

\* MeshGenerator on constant-depth maps
InitMeshFlat == MeshFlatInit /\ DiscIdle /\ ProjIdle /\ RenderIdle /\ LayerIdle /\ DriverIdle /\ ContextIdle
SpecMeshFlat == InitMeshFlat /\ [][MeshGenNext]_vars

\* DepthThresholds::isDiscontinuity on pairs of depths
InitDisc == DiscInit /\ MeshGenIdle /\ ProjIdle /\ RenderIdle /\ LayerIdle /\ DriverIdle /\ ContextIdle
DiscNext == IsDiscontinuityCall
SpecDisc == InitDisc /\ [][DiscNext]_vars

\* back-projection, projection matrix and vertex stage on one point
InitProj == ProjInit /\ MeshGenIdle /\ DiscIdle /\ RenderIdle /\ LayerIdle /\ DriverIdle /\ ContextIdle
SpecProj == InitProj /\ [][ProjNext]_vars

\* a DepthMesh, a GLRenderer and a RenderOutput under any order of calls
InitRender == RenderInit /\ MeshGenIdle /\ DiscIdle /\ ProjIdle /\ LayerIdle /\ DriverIdle /\ ContextIdle
SpecRender == InitRender /\ [][RenderNext]_vars

\* a GLRenderer under any order of calls, with the mesh and texture of a
\* DepthMesh as the arguments of the uploads
InitLifecycle == LifecycleInit /\ MeshGenIdle /\ DiscIdle /\ ProjIdle /\ LayerIdle /\ DriverIdle /\ ContextIdle
SpecLifecycle == InitLifecycle /\ [][LifecycleNext]_vars

\* main from the validation of its configuration to its return
InitDriver == DriverInit /\ MeshGenIdle /\ DiscIdle /\ ProjIdle /\ LayerIdle /\ ContextIdle
SpecDriver == InitDriver /\ [][DriverNext]_vars

\* a GLContext under any order of initialize and destroy, on any platform
InitContext == ContextInit /\ MeshGenIdle /\ DiscIdle /\ ProjIdle /\ RenderIdle /\ LayerIdle /\ DriverIdle
SpecContext == InitContext /\ [][ContextNext]_vars

\* one render of triangles stacked over one pixel
InitLayers == LayerInit /\ MeshGenIdle /\ DiscIdle /\ ProjIdle /\ RenderIdle /\ DriverIdle /\ ContextIdle
SpecLayers == InitLayers /\ [][LayerNext]_vars

(***************************************************************************)
(* Properties of MeshGenerator::generate                                   *)
(***************************************************************************)
\* the pixel (0-based, row-major) whose vertex has index idx
SourcePixel(idx) == CHOOSE p \in 0..(Len(genGrid) - 1) : genGrid[p + 1] = idx

\* the depth generate read at pixel p
SourceDepth(p) == depthFOf(genDepth).data[p + 1]

TriangleCorners(t) == <<t.v0, t.v1, t.v2>>

\* a step map: left half 2.0, right half 10.0
IsStepMap(m) ==
    /\ m.type = "CV_32F"
    /\ m.cols >= 2
    /\ \A p \in 0..(m.rows * m.cols - 1) :
          m.data[p + 1] = IF (p % m.cols) < (m.cols \div 2) THEN Rat(2, 1) ELSE Rat(10, 1)

InLeftHalf(p) == (p % genDepth.cols) < (genDepth.cols \div 2)

\* C1: every triangle generate emits references three existing, pairwise
\* distinct vertices, and the discontinuity predicate is false on each of its
\* three edges, taken on the depths of the corners' source pixels; on a step
\* map with tau_rel = 0.1, tau_abs = 0.5 no triangle has corners in both halves
C1_TrianglesValid ==
    genDone =>
        \A k \in 1..Len(genMesh.triangles) :
            LET t == genMesh.triangles[k]
                c == TriangleCorners(t)
            IN  /\ \A i \in 1..3 : c[i] >= 0 /\ c[i] < Len(genMesh.vertices)
                /\ c[1] # c[2] /\ c[2] # c[3] /\ c[3] # c[1]
                /\ \A i \in 1..3 : \E p \in 0..(Len(genGrid) - 1) : genGrid[p + 1] = c[i]
                /\ \A i, j \in 1..3 :
                      i # j => ~isDiscontinuity(thresholds_,
                                                SourceDepth(SourcePixel(c[i])),
                                                SourceDepth(SourcePixel(c[j])))
                /\ (IsStepMap(genDepth)
                    /\ thresholds_ = DepthThresholds(Rat(1, 10), Rat(1, 2)))
                   => \A i, j \in 1..3 :
                         InLeftHalf(SourcePixel(c[i])) = InLeftHalf(SourcePixel(c[j]))

\* a 2 x 2 map with four vertices of which one candidate triangle was broken
\* by a discontinuity and the other emitted
C1_Witness ==
    /\ genDone
    /\ Len(genMesh.vertices) = 4
    /\ Len(genMesh.triangles) = 1

\* a step map was triangulated with the thresholds of the example
C1_StepWitness ==
    /\ genDone
    /\ IsStepMap(genDepth)
    /\ thresholds_ = DepthThresholds(Rat(1, 10), Rat(1, 2))
    /\ Len(genMesh.vertices) = genDepth.rows * genDepth.cols

\* validity of pixel p as the claim states it: finite depth > 0 and, when a
\* mask is given, a non-zero mask byte
PixelValid(p) ==
    LET z == SourceDepth(p)
    IN  /\ z[2] # 0
        /\ z[1] > 0
        /\ (genMask.rows * genMask.cols = 0 \/ genMask.data[p + 1] # 0)

\* C3: generate creates exactly one vertex per valid pixel and none for any
\* other pixel; the vertex's Z is the pixel's depth, so the vertex count is
\* the number of valid pixels and every vertex Z is finite and positive
C3_VertexPerValidPixel ==
    genDone =>
        LET n == Len(genGrid)
        IN  /\ n = genDepth.rows * genDepth.cols
            /\ \A p \in 0..(n - 1) :
                  IF PixelValid(p)
                  THEN /\ genGrid[p + 1] >= 0
                       /\ genGrid[p + 1] < Len(genMesh.vertices)
                       /\ genMesh.vertices[genGrid[p + 1] + 1].z = SourceDepth(p)
                  ELSE genGrid[p + 1] = -1
            /\ \A p, q \in 0..(n - 1) :
                  (p # q /\ genGrid[p + 1] >= 0) => genGrid[p + 1] # genGrid[q + 1]
            /\ Len(genMesh.vertices) = Cardinality({p \in 0..(n - 1) : PixelValid(p)})
            /\ \A i \in 1..Len(genMesh.vertices) :
                  LET z == genMesh.vertices[i].z IN z[2] # 0 /\ z[1] > 0

\* a masked call where one pixel of valid depth is masked out, another pixel
\* has an invalid depth, and a third produced a vertex
C3_Witness ==
    /\ genDone
    /\ ~MatEmpty(genMask)
    /\ Len(genMesh.vertices) > 0
    /\ \E p \in 0..(Len(genGrid) - 1) :
          /\ genMask.data[p + 1] = 0
          /\ isValidDepth(SourceDepth(p))
    /\ \E p \in 0..(Len(genGrid) - 1) : ~isValidDepth(SourceDepth(p))

\* C4: an N x M map of one finite positive depth, with positive thresholds,
\* gives exactly N*M vertices and 2*(N-1)*(M-1) triangles
C4_FlatPlaneComplete ==
    genDone =>
        /\ Len(genMesh.vertices) = genDepth.rows * genDepth.cols
        /\ Len(genMesh.triangles) = 2 * (genDepth.rows - 1) * (genDepth.cols - 1)

\* a flat map of at least 3 x 3 pixels, far away, was triangulated
C4_Witness ==
    /\ genDone
    /\ genDepth.rows >= 3
    /\ genDepth.cols >= 3
    /\ genDepth.data[1] = Rat(1000, 1)
    /\ Len(genMesh.triangles) >= 8

(***************************************************************************)
(* Properties of isDiscontinuity                                           *)
(***************************************************************************)
FinitePositive(z) == z[2] # 0 /\ z[1] > 0

\* C2: for finite, strictly positive z1 and z2, isDiscontinuity(z1, z2) is
\* true exactly when |z1 - z2| / min(z1, z2) > tau_rel or |z1 - z2| > tau_abs
C2_PlainThresholds ==
    (discDone /\ FinitePositive(discZ1) /\ FinitePositive(discZ2)) =>
        LET diff == RAbs(RSub(discZ1, discZ2))
            lo   == IF RLt(discZ1, discZ2) THEN discZ1 ELSE discZ2
        IN  discRet = (RGt(RDiv(diff, lo), tau.tau_rel) \/ RGt(diff, tau.tau_abs))

(***************************************************************************)
(* Properties of the projection                                            *)
(***************************************************************************)
\* C5: a pixel (u, v) back-projected with K and projected with the matrix
\* built from the same K lands, after perspective division, on its own
\* centre: x_ndc = 2(u + 0.5)/W - 1 and y_ndc = 1 - 2(v + 0.5)/H
C5_RoundTrip ==
    (projStage = "clip" /\ projPixel.used /\ projTargetK = projSourceK) =>
        LET ndc == ndcOf(projClip)
            W == projSourceK.width
            H == projSourceK.height
        IN  /\ ndc.x = Rat(2 * (2 * projPixel.u + 1) - 2 * W, 2 * W)
            /\ ndc.y = Rat(2 * H - 2 * (2 * projPixel.v + 1), 2 * H)

\* a pixel off the principal point went through the whole pipeline
C5_Witness ==
    /\ projStage = "clip"
    /\ projPixel.used
    /\ projTargetK = projSourceK
    /\ projPixel.u = 1
    /\ projVertex.x # Zero
    /\ projVertex.y # Zero

\* C6: for a camera-space point (X, Y, Z), Z > 0, the matrix gives clip
\* w = Z and, after division, x_ndc = 2u'/W' - 1 and y_ndc = 1 - 2v'/H' with
\* u' = fx' X/Z + cx' and v' = fy' Y/Z + cy'
C6_PinholeProjection ==
    projStage = "clip" =>
        LET K == projTargetK
            P == projVertex
            ndc == ndcOf(projClip)
            u1 == RAdd(RDiv(RMul(K.fx, P.x), P.z), K.cx)
            v1 == RAdd(RDiv(RMul(K.fy, P.y), P.z), K.cy)
        IN  /\ projClip.w = P.z
            /\ ndc.x = RSub(RDiv(RMul(Two, u1), FromInt(K.width)), One)
            /\ ndc.y = RSub(One, RDiv(RMul(Two, v1), FromInt(K.height)))

\* a point off both axes was projected with intrinsics other than the source's
C6_Witness ==
    /\ projStage = "clip"
    /\ ~projPixel.used
    /\ projVertex.x # Zero
    /\ projVertex.y # Zero
    /\ projTargetK # projSourceK

(***************************************************************************)
(* Properties of GLRenderer::render                                        *)
(***************************************************************************)
\* the latest call was a render that returned true
RenderOk == call.op = "render" /\ call.ok

\* the raster pixel (index from 1, rows upwards) behind element i of an
\* output buffer (rows downwards)
RasterIndex(i) ==
    LET y == (i - 1) \div output.width
        x == (i - 1) % output.width
    IN  (output.height - 1 - y) * output.width + x + 1

\* a fragment passed the depth test at the raster pixel behind element i:
\* the depth buffer no longer holds the value it was cleared to
WonDepthTest(i) == attachments[RasterIndex(i)].depth # One

\* C7: in the output of a successful render each mask element is 0 or 1, and
\* it is 1 exactly when a fragment of a triangle covered the pixel and won
\* the depth test
C7_MaskZeroOrOne ==
    RenderOk =>
        \A i \in 1..Len(output.mask) :
            /\ output.mask[i] \in {0, 1}
            /\ output.mask[i] = 1 <=> WonDepthTest(i)

\* what the code does about C7: the mask element is 255 exactly when a
\* fragment won the depth test, and 0 otherwise
MaskZeroOr255 ==
    RenderOk =>
        \A i \in 1..Len(output.mask) :
            /\ output.mask[i] \in {0, 255}
            /\ output.mask[i] = 255 <=> WonDepthTest(i)

\* C8: in the output of every successful render, whatever was rendered
\* before and whether the RenderOutput is reused, a pixel with mask 0 has
\* rgb (0, 0, 0) and depth 0
C8_UnwrittenPixelsCleared ==
    RenderOk =>
        \A i \in 1..Len(output.mask) :
            output.mask[i] = 0 =>
                /\ output.rgb[3 * i - 2] = 0
                /\ output.rgb[3 * i - 1] = 0
                /\ output.rgb[3 * i] = 0
                /\ output.depth[i] = Zero

\* a successful render into a RenderOutput that held an earlier frame left
\* both a pixel with mask 0 and a written pixel
C8_Witness ==
    /\ RenderOk
    /\ call.outputBefore # <<0, 0>>
    /\ \E i \in 1..Len(output.mask) : output.mask[i] = 0
    /\ \E i \in 1..Len(output.mask) : output.mask[i] # 0

\* the buffers of the renderer hold the mesh of the DepthMesh, which a
\* successful build left
RenderedMeshBuilt ==
    /\ ~MeshEmpty(mesh_)
    /\ vboData = mesh_.vertices
    /\ eboData = mesh_.triangles

\* C9: after a successful render of the mesh a DepthMesh built, every pixel
\* with a non-zero mask has a finite, positive depth between the minDepth and
\* maxDepth of the DepthMesh
C9_DepthWithinMeshRange ==
    (RenderOk /\ RenderedMeshBuilt) =>
        \A i \in 1..Len(output.mask) :
            output.mask[i] # 0 =>
                /\ isfinite(output.depth[i])
                /\ RLe(minDepth_, output.depth[i])
                /\ RLe(output.depth[i], maxDepth_)
                /\ RGt(output.depth[i], Zero)

\* a render of a built mesh wrote a pixel whose depth lies strictly between
\* the depths of the vertices
C9_Witness ==
    /\ RenderOk /\ RenderedMeshBuilt
    /\ \E i \in 1..Len(output.mask) :
          /\ output.mask[i] # 0
          /\ RLt(minDepth_, output.depth[i])
          /\ RLt(output.depth[i], maxDepth_)

\* C10: after a successful render the output has the width and height of the
\* target intrinsics and its rgb, depth and mask hold width * height * 3,
\* width * height and width * height elements
C10_OutputDimensions ==
    RenderOk =>
        /\ output.width = call.targetK.width
        /\ output.height = call.targetK.height
        /\ Len(output.rgb) = output.width * output.height * 3
        /\ Len(output.depth) = output.width * output.height
        /\ Len(output.mask) = output.width * output.height

\* a successful render into a RenderOutput that a render at another
\* resolution had filled
C10_Witness ==
    /\ RenderOk
    /\ call.outputBefore # <<0, 0>>
    /\ call.outputBefore # <<output.width, output.height>>

\* C11: after a successful render, for every x in [0, W) and y in [0, H),
\* element (x, y) of rgb, depth and mask is taken from raster pixel
\* (x, H - 1 - y) of the RGBA8, R32F and R8 attachment; rgb holds the R, G
\* and B bytes in that order, without alpha
C11_ReadsFlipRows ==
    RenderOk =>
        LET W == output.width
            H == output.height
        IN  /\ Len(output.rgb) = W * H * 3
            /\ Len(output.depth) = W * H
            /\ Len(output.mask) = W * H
            /\ \A x \in 0..(W - 1), y \in 0..(H - 1) :
                  LET src == attachments[(H - 1 - y) * W + x + 1]
                      dst == y * W + x
                  IN  /\ output.rgb[3 * dst + 1] = src.color0[1]
                      /\ output.rgb[3 * dst + 2] = src.color0[2]
                      /\ output.rgb[3 * dst + 3] = src.color0[3]
                      /\ output.depth[dst + 1] = src.color1
                      /\ output.mask[dst + 1] = src.color2

\* a successful render of two rows whose raster rows differ in colour, in
\* depth and in mask
C11_Witness ==
    /\ RenderOk
    /\ output.height = 2
    /\ \E x \in 0..(output.width - 1) :
          LET lower == attachments[x + 1]
              upper == attachments[output.width + x + 1]
          IN  /\ lower.color0 # upper.color0
              /\ lower.color1 # upper.color1
              /\ lower.color2 # upper.color2

(***************************************************************************)
(* Properties of the depth test                                            *)
(***************************************************************************)
\* z in normalized device coordinates of a point at camera Z z on the
\* optical axis, under the matrix of the render
LayerNdcZ(z) == ndcOf(vertexShader(layerMatrix, Vertex(Zero, Zero, z, Zero, Zero))).z

\* the z row of the matrix maps near to -1 and far to +1 and increases with Z
LayerZRow ==
    /\ LayerNdcZ(layerPlanes[1]) = FromInt(-1)
    /\ LayerNdcZ(layerPlanes[2]) = One
    /\ \A z1, z2 \in LayerDepthSet : RLt(z1, z2) => RLt(LayerNdcZ(z1), LayerNdcZ(z2))

\* the pixel shows the triangle of the least camera Z among the triangles in
\* the set shown, if there is any
LayerNearestOf(shown) ==
    shown # {} =>
        LET k == CHOOSE i \in shown : \A j \in shown : RLe(layerDepths[i], layerDepths[j])
        IN  /\ layerOutput.depth = << layerDepths[k] >>
            /\ layerOutput.rgb = << LayerByte(layerDepths[k]), 0, 0 >>
            /\ layerOutput.mask[1] # 0

\* C12 as stated: for 0 < near < far the z row gives z_ndc = -1 at Z = near
\* and +1 at Z = far and increases with Z, and among the fragments covering a
\* pixel the one of the smallest camera Z within [near, far] determines the
\* pixel's rgb, depth and mask
C12_NearerWinsClosed ==
    layerDone =>
        /\ LayerZRow
        /\ LayerNearestOf({ k \in 1..Len(layerDepths) :
                              /\ RLe(layerPlanes[1], layerDepths[k])
                              /\ RLe(layerDepths[k], layerPlanes[2]) })

\* C12 amended: the same, among the fragments of camera Z within [near, far):
\* a fragment at Z = far has window depth 1.0, which is not less than the
\* cleared depth
C12_NearerWins ==
    layerDone =>
        /\ LayerZRow
        /\ LayerNearestOf({ k \in 1..Len(layerDepths) :
                              /\ RLe(layerPlanes[1], layerDepths[k])
                              /\ RLt(layerDepths[k], layerPlanes[2]) })

\* a farther triangle was drawn before a nearer one, both between the planes,
\* and the pixel shows the nearer
C12_Witness ==
    /\ layerDone
    /\ Len(layerDepths) >= 2
    /\ RLe(layerPlanes[1], layerDepths[2])
    /\ RLt(layerDepths[2], layerDepths[1])
    /\ RLt(layerDepths[1], layerPlanes[2])
    /\ layerOutput.depth = << layerDepths[2] >>

(***************************************************************************)
(* Properties of the GLRenderer life cycle                                 *)
(***************************************************************************)
\* the vertex and element buffers and the texture the renderer owns hold an
\* uploaded mesh and an uploaded image
UploadsPresent ==
    /\ vbo_ # 0 /\ ebo_ # 0 /\ rgbTexture_ # 0
    /\ vboData # <<>> /\ eboData # <<>>
    /\ texImage # NoImage

\* C13: in every state reachable by any sequence of initialize, uploadMesh,
\* uploadTexture, render and cleanup calls, render returns true only if the
\* renderer is initialized and a mesh and a texture have been uploaded to the
\* GPU resources it currently owns; a renderer that holds no uploaded mesh
\* never renders
C13_RenderNeedsUploads ==
    RenderOk => (initialized_ /\ UploadsPresent)

\* what C14 says of one call
FailedInitializeIsFatal ==
    /\ (call'.op = "initialize" /\ ~call'.ok) => (~initialized_ /\ ~initialized_')
    /\ (~initialized_ /\ call'.op \in {"uploadMesh", "uploadTexture", "render"}) => ~call'.ok
    /\ (~initialized_ /\ initialized_') => (call'.op = "initialize" /\ call'.ok)
    /\ (call'.op = "render" /\ call'.ok) => programId_' # 0

\* C14: an initialize in which context creation or the build of the shaders
\* fails returns false and leaves isInitialized() false; while it is false
\* every uploadMesh, uploadTexture and render returns false, and only an
\* initialize that returns true makes it true; no render succeeds without a
\* program
C14_FailedInitializeIsFatal == [][FailedInitializeIsFatal]_vars

\* a render was refused on a renderer whose context exists but whose shaders
\* failed to build, though a mesh had been uploaded before
C14_Witness ==
    /\ call.op = "render" /\ ~call.ok
    /\ ~initialized_
    /\ eglContext_.initialized_
    /\ programId_ = 0
    /\ numIndices_ # 0

\* the step is a call rejected for input validation: an uploadMesh of an
\* empty mesh, an uploadTexture of an empty image, or a render before a mesh
\* or a texture was uploaded
RejectedCall ==
    \/ call'.op = "uploadMesh" /\ MeshEmpty(mesh_)
    \/ call'.op = "uploadTexture" /\ MatEmpty(texture_)
    \/ call'.op = "render" /\ (numIndices_ = 0 \/ rgbTexture_ = 0)

\* C15: a call rejected for input validation returns false and leaves the
\* renderer as it was: the initialized flag, the index count, the texture
\* handle, the framebuffer, the GL objects and their contents, and the output
C15_RejectedCallLeavesState ==
    [][RejectedCall =>
          /\ ~call'.ok
          /\ UNCHANGED <<rendererVars, framebufferVars, glVars, output>>]_vars

\* a render was rejected on an initialized renderer that holds an uploaded
\* mesh and no texture
C15_Witness ==
    /\ call.op = "render" /\ ~call.ok
    /\ initialized_
    /\ numIndices_ # 0 /\ eboData # <<>>
    /\ rgbTexture_ = 0

\* the step is a render that passes its guards while the renderer holds a
\* valid framebuffer of the size of the target
SameSizeRender ==
    /\ call'.op = "render"
    /\ initialized_ /\ numIndices_ # 0 /\ rgbTexture_ # 0
    /\ fboId_ # 0
    /\ width_ = call'.targetK.width
    /\ height_ = call'.targetK.height

\* C16: a render at the resolution of the valid framebuffer does not call
\* Framebuffer::create: it succeeds with the same FBO, attachment and
\* renderbuffer handles, and no GL object is created or deleted
C16_FramebufferReused ==
    [][SameSizeRender =>
          /\ call'.ok
          /\ UNCHANGED <<framebufferVars, glNames>>]_vars

\* a successful render at the resolution of the render before it
C16_Witness ==
    /\ RenderOk
    /\ output.width > 0 /\ output.height > 0
    /\ call.outputBefore = <<output.width, output.height>>
    /\ fboId_ # 0

(***************************************************************************)
(* Properties of DepthMesh::build                                          *)
(***************************************************************************)
\* C17: after a build that returned false, whatever builds preceded it, the
\* DepthMesh holds no vertex and no triangle
C17_FailedBuildRetainsNothing ==
    (call.op = "build" /\ ~call.ok) =>
        /\ Len(mesh_.vertices) = 0
        /\ Len(mesh_.triangles) = 0

\* the mesh MeshGenerator::generate makes of the depth map of the latest
\* build, under the intrinsics build hands it
BuildGenerated ==
    generate(RenderThresholds, call.depth,
             [RenderSourceK EXCEPT !.width = call.depth.cols, !.height = call.depth.rows],
             EmptyMat).mesh

\* C18: build returns true iff the image and the depth map are non-empty and
\* of equal width and height and the generated mesh has at least one vertex
\* and one triangle; after every build, in any sequence of builds, isValid()
\* is what the build returned
C18_BuildResult ==
    call.op = "build" =>
        /\ call.ok <=>
              /\ ~MatEmpty(call.rgb) /\ ~MatEmpty(call.depth)
              /\ call.rgb.cols = call.depth.cols
              /\ call.rgb.rows = call.depth.rows
              /\ Len(BuildGenerated.vertices) >= 1
              /\ Len(BuildGenerated.triangles) >= 1
        /\ isValid(mesh_) = call.ok

\* a build failed on a DepthMesh whose earlier mesh had been uploaded to the
\* renderer, and the DepthMesh is invalid
C18_Witness ==
    /\ call.op = "build" /\ ~call.ok
    /\ ~MatEmpty(call.rgb)
    /\ vboData # <<>>
    /\ ~isValid(mesh_)

(***************************************************************************)
(* Properties of the driver                                                *)
(***************************************************************************)
\* the render calls the driver has made, in order
Renders == SelectSeq(trace, LAMBDA c : c.op = "render")

\* a call of the driver before its loop has failed
PreliminaryFailed ==
    \E k \in 1..Len(trace) :
        /\ trace[k].op \in {"build", "initialize", "uploadMesh", "uploadTexture"}
        /\ ~trace[k].ok

\* the four calls before the loop have been made and have succeeded
PreliminariesDone ==
    /\ Len(trace) >= 4
    /\ \A k \in 1..4 : trace[k].ok /\ trace[k].op # "cleanup"

\* C19: a failure of the mesh build, the initialization, the mesh upload or
\* the texture upload ends the run with exit code 1 and no render call; a
\* failed render is skipped, with nothing saved for its scale, and the loop
\* goes on; with the preliminaries successful the run ends with render called
\* exactly once per entry of the focal scale list
C19_DriverFailures ==
    /\ PreliminaryFailed =>
          /\ Renders = <<>>
          /\ pc \in {"return1", "return1Renderer", "done"}
          /\ pc = "done" => exitCode = 1
    /\ pc \in {"loop", "render"} => Len(Renders) = scaleIdx
    /\ \A k \in 1..Len(saved) :
          /\ saved[k] + 1 <= Len(Renders)
          /\ Renders[saved[k] + 1].ok
    /\ \A k \in 1..Len(Renders) :
          Renders[k].ok <=> \E i \in 1..Len(saved) : saved[i] = k - 1
    /\ (pc = "done" /\ PreliminariesDone) =>
          /\ exitCode = 0
          /\ Len(Renders) = Len(config.focalScales)

\* the run ended after a failed render for the first scale and a successful
\* one, with saved output, for the second
C19_Witness ==
    /\ pc = "done"
    /\ exitCode = 0
    /\ Len(Renders) = 2
    /\ ~Renders[1].ok
    /\ Renders[2].ok
    /\ saved = <<1>>

\* the calls of a run that gets as far as its k-th call
ExpectedCall(k) ==
    IF k <= 4 THEN <<"build", "initialize", "uploadMesh", "uploadTexture">>[k] ELSE "render"

\* C20: in every run the calls are, as far as the run gets, build,
\* initialize, uploadMesh, uploadTexture, once each, then the renders in the
\* order of the focal scale list, then cleanup; renders come only after the
\* two successful uploads, nothing but cleanup follows cleanup, and a run
\* that ends with exit code 0 has made all of these calls
C20_DriverOrder ==
    \E n \in 0..Len(trace) :
        /\ \A k \in 1..n :
              /\ trace[k].op = ExpectedCall(k)
              /\ k > 4 => /\ trace[k].scale = k - 5
                          /\ k - 4 <= Len(config.focalScales)
                          /\ trace[3].ok /\ trace[4].ok
        /\ \A k \in (n + 1)..Len(trace) : trace[k].op = "cleanup"
        /\ (pc = "done" /\ exitCode = 0) =>
              /\ n = 4 + Len(config.focalScales)
              /\ Len(trace) > n

\* a run ended with exit code 0 after two renders
C20_Witness ==
    /\ pc = "done"
    /\ exitCode = 0
    /\ Len(trace) >= 7
    /\ trace[5].op = "render" /\ trace[6].op = "render"
    /\ trace[7].op = "cleanup"

(***************************************************************************)
(* Properties of the target intrinsics of main                             *)
(***************************************************************************)
\* C21: every target Intrinsics the driver passes to GLRenderer::render has
\* fx > 0, fy > 0, width > 0 and height > 0, whatever configuration
\* Config::validate accepted.
C21_TargetIntrinsicsPositive ==
    (pc # "none" /\ call.op = "render") =>
        /\ RGt(call.targetK.fx, Zero) /\ RGt(call.targetK.fy, Zero)
        /\ call.targetK.width > 0 /\ call.targetK.height > 0

\* where a clip position lands in the image of camera K: the window
\* coordinates of the viewport, with the row counted from the top as the
\* readback returns it
ImagePosition(clip, K) ==
    LET win == windowOf(clip, K.width, K.height)
    IN  <<win.x, RSub(FromInt(K.height), win.y)>>

\* C22: a camera-space point on the optical axis (X = Y = 0, Z > 0) is
\* projected to the image centre, that is to the principal point (cx, cy) of
\* the target camera (the middle of the image unless the caller sets cx, cy
\* otherwise), whatever fx and fy are: at focal scale s and at focal scale
\* 2s, which keep cx, cy and the size, it lands on the same position.
C22_AxisPointAtCenter ==
    (projStage = "clip" /\ projVertex.x = Zero /\ projVertex.y = Zero) =>
        LET K == projTargetK
            K2 == scaled(K, Two)
            clip2 == vertexShader(createProjectionMatrix(K2, projPlanes[1], projPlanes[2]),
                                  projVertex)
        IN  /\ ImagePosition(projClip, K) = <<K.cx, K.cy>>
            /\ ImagePosition(clip2, K2) = ImagePosition(projClip, K)
            /\ K2.cx = K.cx /\ K2.cy = K.cy

\* a point on the axis was projected with a camera zoomed by two whose
\* principal point is the centre of its image
C22_Witness ==
    /\ projStage = "clip"
    /\ projVertex.x = Zero /\ projVertex.y = Zero
    /\ projTargetK.fx = RMul(Two, projSourceK.fx)
    /\ projTargetK.cx = Rat(projTargetK.width, 2)
    /\ projTargetK.cy = Rat(projTargetK.height, 2)
    /\ ImagePosition(projClip, projTargetK) = <<Rat(projTargetK.width, 2), Rat(projTargetK.height, 2)>>

\* a depth isDiscontinuity takes for invalid: NaN, infinite, zero or negative
InvalidDepth(z) == z[2] = 0 \/ z[1] <= 0

\* C23: isDiscontinuity(z1, z2) is true whenever z1 or z2 is NaN, infinite,
\* zero or negative, whatever the thresholds and the other depth are; for
\* equal finite positive depths and thresholds that are not negative it is
\* false.
C23_InvalidIsDiscontinuity ==
    discDone =>
        /\ (InvalidDepth(discZ1) \/ InvalidDepth(discZ2)) => discRet
        /\ ( /\ FinitePositive(discZ1) /\ discZ1 = discZ2
             /\ RGe(tau.tau_rel, Zero) /\ RGe(tau.tau_abs, Zero) ) => ~discRet

\* a call with a zero depth next to a valid one, under negative thresholds
C23_Witness ==
    /\ discDone
    /\ discZ1 = Rat(2, 1) /\ discZ2 = Zero
    /\ RLt(tau.tau_rel, Zero)
    /\ discRet

(***************************************************************************)
(* Properties of GLRenderer::cleanup and of the GL objects a renderer owns *)
(***************************************************************************)
\* C24: cleanup returns the renderer to the state of a newly constructed
\* one: the initialized flag, the VAO, VBO, EBO and texture handles, the
\* uploaded index count, the shader program and the framebuffer are reset,
\* so nothing uploaded before the cleanup counts as uploaded after it.
C24_CleanupResetsRenderer ==
    call.op = "cleanup" =>
        /\ ~initialized_ /\ ~eglContext_.initialized_
        /\ vao_ = 0 /\ vbo_ = 0 /\ ebo_ = 0 /\ rgbTexture_ = 0
        /\ numIndices_ = 0
        /\ programId_ = 0
        /\ framebuffer_ = NoFramebuffer
        /\ glNames = {}
\* the GL object names of a kind that are in use
Live(kind) == { n \in glNames : n[1] = kind }

\* render passed its guards on the renderer's state
RenderGuardsPassed == initialized_ /\ numIndices_ # 0 /\ rgbTexture_ # 0

\* C25: Framebuffer::create deletes the FBO, the three colour attachments
\* and the depth renderbuffer it has before it creates new ones, so at most
\* one FBO, three attachment textures and one renderbuffer are in use in
\* every state, namely those of the handles; when the completeness check
\* fails all are deleted, isValid() is false, width and height are 0 and
\* render returns false.
C25_FramebufferObjectsBounded ==
    /\ Live("framebuffer") = { <<"framebuffer", fboId_>> } \ { <<"framebuffer", 0>> }
    /\ Live("renderbuffer") = { <<"renderbuffer", depthRbo_>> } \ { <<"renderbuffer", 0>> }
    /\ Live("texture") \ { <<"texture", rgbTexture_>> } =
           { <<"texture", colorTextures_[i]>> : i \in 1..3 } \ { <<"texture", 0>> }
    /\ Cardinality(Live("framebuffer")) <= 1
    /\ Cardinality(Live("renderbuffer")) <= 1
    /\ Cardinality(Live("texture") \ { <<"texture", rgbTexture_>> }) <= 3
    /\ (call.op = "render" /\ RenderGuardsPassed) =>
           IF call.ok
           THEN /\ fboId_ # 0
                /\ width_ = call.targetK.width /\ height_ = call.targetK.height
                /\ Cardinality(Live("texture") \ { <<"texture", rgbTexture_>> }) = 3
           ELSE /\ framebuffer_ = NoFramebuffer
                /\ Live("framebuffer") = {} /\ Live("renderbuffer") = {}
                /\ Live("texture") \subseteq { <<"texture", rgbTexture_>> }

\* a second render, at another size than the render before it, succeeded
C25_Witness ==
    /\ numCalls = 5
    /\ call.op = "render" /\ call.ok
    /\ call.outputBefore # <<0, 0>>
    /\ call.outputBefore # <<call.targetK.width, call.targetK.height>>
    /\ width_ = call.targetK.width /\ height_ = call.targetK.height

(***************************************************************************)
(* Properties of GLContext::initialize                                     *)
(***************************************************************************)
\* the calls of the latest operation that succeeded
Succeeded(fn) == \E i \in 1..Len(eglLog) : eglLog[i].fn = fn /\ eglLog[i].ok

\* C27: GLContext::initialize is all or nothing. It returns true only when a
\* context was created and made current and the GL functions were loaded,
\* and then isValid() (initialized_) is true; on every failure it returns
\* false with isValid() false and display, context and surface released and
\* null, so that a later call starts from a clean state; on an initialized
\* context it returns true and creates nothing.
C27_ContextAllOrNothing ==
    /\ ~glContext.initialized_ => (glContext = NoContext /\ eglLive = {})
    /\ ctxCall.op = "initialize" =>
          IF ctxCall.before.initialized_
          THEN ctxCall.ok /\ eglLog = <<>> /\ glContext = ctxCall.before
          ELSE IF ctxCall.ok
          THEN /\ glContext.initialized_
               /\ glContext.display_ # nullptr /\ glContext.context_ # nullptr
               /\ Succeeded("eglCreateContext") /\ Succeeded("eglMakeCurrent")
               /\ Succeeded("gladLoadGL")
               /\ {"display", "context"} \subseteq eglLive
          ELSE /\ ~glContext.initialized_
               /\ glContext = NoContext
               /\ eglLive = {}

\* an initialize created a context and a surface and then failed to make the
\* context current
C27_Witness ==
    /\ ctxCall.op = "initialize" /\ ~ctxCall.ok
    /\ ctxCall.error = "Failed to make EGL context current"
    /\ Succeeded("eglCreateContext") /\ Succeeded("eglCreatePbufferSurface")
    /\ glContext = NoContext /\ eglLive = {}

\* the eglCreateContext calls of the latest operation, in order
ContextRequests ==
    LET IsRequest(e) == e.fn = "eglCreateContext"
    IN  SelectSeq(eglLog, IsRequest)

\* C28: GLContext::initialize requests OpenGL core contexts in the order 4.6,
\* 4.5, 4.3, stops at the first request that succeeds, never requests a lower
\* version after a higher one succeeded, and reports the failure of context
\* creation only when all three requests failed.
C28_VersionFallback ==
    ctxCall.op = "initialize" =>
        LET req == ContextRequests
            n == Len(req)
        IN  /\ n <= 3
            /\ \A i \in 1..n : req[i].arg = <<46, 45, 43>>[i]
            /\ \A i \in 1..(n - 1) : ~req[i].ok
            /\ (n \in 1..2) => req[n].ok
            /\ (ctxCall.error = "Failed to create EGL context") <=>
                   (n = 3 /\ \A i \in 1..3 : ~req[i].ok)

\* the request for 4.6 failed, that for 4.5 succeeded and initialize went on
\* to succeed
C28_Witness ==
    /\ ctxCall.op = "initialize" /\ ctxCall.ok
    /\ Len(ContextRequests) = 2
    /\ ~ContextRequests[1].ok /\ ContextRequests[2].ok
    /\ ContextRequests[2].arg = 45

(***************************************************************************)
(* Properties of the GL commands of a GLRenderer                           *)
(***************************************************************************)
\* what a call on the renderer leaves: every GL command it issued found the
\* context initialized; a cleanup of a renderer whose context is not
\* initialized issued none; after a cleanup the context is destroyed and no
\* GL object is left
CommandsInContext ==
    /\ \A i \in 1..Len(glIssued') : glIssued'[i].live
    /\ (glIssued' # <<>> /\ call'.op # "cleanup") => eglContext_'.initialized_
    /\ call'.op = "cleanup" =>
          /\ ~eglContext_.initialized_ => glIssued' = <<>>
          /\ ~eglContext_'.initialized_ /\ ~initialized_'
          /\ glNames' = {}

\* C26: in every sequence of initialize, uploadMesh, uploadTexture, render
\* and cleanup (the destructor runs cleanup), every GL command the renderer
\* issues is issued while its context is initialized and not yet destroyed:
\* cleanup deletes framebuffer, program, buffers and texture before it
\* destroys the context, and a repeated cleanup or a cleanup of a renderer
\* that was never initialized issues no GL command.
C26_CommandsInContext == [][CommandsInContext]_vars

\* a cleanup deleted the objects of a renderer that had rendered, and a
\* second cleanup follows it
C26_Witness ==
    /\ call.op = "cleanup"
    /\ Len(glIssued) >= 9
    /\ \A i \in 1..Len(glIssued) : glIssued[i].live
    /\ ~eglContext_.initialized_
    /\ numCalls < MaxCalls

(***************************************************************************)
(* Properties of the target intrinsics under an output resolution          *)
(***************************************************************************)
\* C29: when the output resolution (W', H') differs from the source size,
\* the target intrinsics main passes to render for focal scale s are
\* sourceK.scaled(s).withResolution(W', H'): fx' = fx s W'/W,
\* fy' = fy s H'/H, cx' = cx W'/W, cy' = cy H'/H.
C29_TargetIsScaledWithResolution ==
    ( /\ pc # "none" /\ call.op = "render"
      /\ <<call.targetK.width, call.targetK.height>>
            # <<RenderSourceK.width, RenderSourceK.height>> ) =>
        call.targetK = withResolution(scaled(RenderSourceK, config.focalScales[scaleIdx]),
                                      call.targetK.width, call.targetK.height)

(***************************************************************************)
(* Properties of repeated uploads                                          *)
(***************************************************************************)
\* the GL object names of a kind among names
LiveIn(names, kind) == { n \in names : n[1] = kind }

\* what a call leaves: an initialized renderer owns one vertex array, one
\* vertex buffer, one element buffer and at most one colour texture next to
\* the attachments of its framebuffer; while it stays initialized the
\* handles stay the same; a successful uploadMesh stores the mesh and its
\* index count, and nothing else changes the count; a successful
\* uploadTexture stores the image
UploadsReuseHandles ==
    /\ initialized_' =>
          /\ vao_' # 0 /\ vbo_' # 0 /\ ebo_' # 0 /\ vbo_' # ebo_'
          /\ LiveIn(glNames', "vertexArray") = { <<"vertexArray", vao_'>> }
          /\ LiveIn(glNames', "buffer") = { <<"buffer", vbo_'>>, <<"buffer", ebo_'>> }
          /\ LiveIn(glNames', "texture") \ { <<"texture", colorTextures_'[i]>> : i \in 1..3 }
                = { <<"texture", rgbTexture_'>> } \ { <<"texture", 0>> }
    /\ (initialized_ /\ initialized_') =>
          /\ vao_' = vao_ /\ vbo_' = vbo_ /\ ebo_' = ebo_
          /\ rgbTexture_ # 0 => rgbTexture_' = rgbTexture_
    /\ IF call'.op = "uploadMesh" /\ call'.ok
       THEN /\ numIndices_' = 3 * Len(mesh_.triangles)
            /\ vboData' = mesh_.vertices /\ eboData' = mesh_.triangles
       ELSE numIndices_' = numIndices_
    /\ (call'.op = "uploadTexture" /\ call'.ok) =>
          (rgbTexture_' # 0 /\ texImage' = texImage2D(texture_))

\* C30: across repeated uploadMesh and uploadTexture calls between an
\* initialize and the next cleanup the renderer owns exactly one VAO, one
\* VBO, one EBO and at most one colour texture; uploads reuse the handles
\* (the texture handle is generated only when it is 0) and replace the
\* contents, and the index count render uses is that of the most recent
\* successful uploadMesh.
C30_UploadsReuseHandles == [][UploadsReuseHandles]_vars

\* an uploadTexture found a texture handle and reused it
C30_Witness ==
    /\ call.op = "uploadTexture" /\ call.ok
    /\ rgbTexture_ # 0
    /\ glIssued = Gl(<<"glTexImage2D">>, TRUE)
    /\ numIndices_ = 3 * Len(mesh_.triangles)
    /\ numIndices_ # 0

====
